---- MODULE Spec2Model ----
(***************************************************************************)
(* Model of the chat proxy of src/src/index.ts: the configuration          *)
(* resolver, the in-memory rate limiter, the request validator, the        *)
(* context normalizer, the prompt composer, the response shaper and the    *)
(* handleChatRequest orchestrator.                                         *)
(*                                                                         *)
(* Representation.  A string the program inspects (splits, trims, measures *)
(* or searches) is a sequence of symbols; a symbol is one character or an  *)
(* indivisible run of characters that holds no space and no comma.  A      *)
(* string the program only copies (header values it sets, error messages)  *)
(* is a TLA+ string.  A JavaScript value of unknown type is a record with  *)
(* a type tag t and, where it has one, a payload v.                        *)
(***************************************************************************)
EXTENDS Integers, Sequences, FiniteSets, TLC

VARIABLES
    now,           \* Date.now(), in milliseconds
    rateLimitMap,  \* the module-level Map: identifier -> [count, resetTime]
    calls,         \* history of the checkRateLimit calls made so far
    env,           \* the Worker's environment variables (present ones only)
    inv            \* the handleChatRequest invocations, one per slot

vars == <<now, rateLimitMap, calls, env, inv>>

(***************************************************************************)
(* JavaScript values                                                       *)
(***************************************************************************)
Undefined == [t |-> "undefined"]
JNull == [t |-> "null"]
JStr(s) == [t |-> "string", v |-> s]
JNum(n) == [t |-> "number", v |-> n]
JBool(b) == [t |-> "boolean", v |-> b]
JArr(a) == [t |-> "array", v |-> a]
JObj(f) == [t |-> "object", v |-> f]

\* typeof value
TypeOf(value) ==
    IF value.t \in {"null", "array", "object"} THEN "object" ELSE value.t

\* value.key for a value that came out of JSON.parse (or is undefined-safe)
Get(value, key) ==
    IF value.t = "object" /\ key \in DOMAIN value.v THEN value.v[key] ELSE Undefined

\* ToBoolean(value)
Truthy(value) ==
    CASE value.t \in {"undefined", "null"} -> FALSE
      [] value.t = "string" -> value.v # <<>>
      [] value.t = "number" -> value.v # 0
      [] value.t = "boolean" -> value.v
      [] OTHER -> TRUE

(***************************************************************************)
(* String helpers (String.prototype.trim, split, slice, includes)          *)
(***************************************************************************)
WhiteSpace == {" ", "\t", "\n"}

RECURSIVE TrimStart(_)
TrimStart(s) ==
    IF s # <<>> /\ Head(s) \in WhiteSpace THEN TrimStart(Tail(s)) ELSE s

RECURSIVE TrimEnd(_)
TrimEnd(s) ==
    IF s # <<>> /\ s[Len(s)] \in WhiteSpace
    THEN TrimEnd(SubSeq(s, 1, Len(s) - 1))
    ELSE s

Trim(s) == TrimEnd(TrimStart(s))

\* s.slice(0, n)
Slice0(s, n) == IF Len(s) <= n THEN s ELSE SubSeq(s, 1, n)

\* s.split(sep) for a one-symbol separator: always at least one piece
RECURSIVE SplitFrom(_, _, _)
SplitFrom(s, sep, piece) ==
    IF s = <<>> THEN <<piece>>
    ELSE IF Head(s) = sep THEN <<piece>> \o SplitFrom(Tail(s), sep, <<>>)
    ELSE SplitFrom(Tail(s), sep, Append(piece, Head(s)))

Split(s, sep) == SplitFrom(s, sep, <<>>)

\* s.includes(word) for a one-symbol word
Includes(s, word) == \E i \in DOMAIN s : s[i] = word

\* array.includes(x)
ArrayIncludes(a, x) == \E i \in DOMAIN a : a[i] = x

\* array.map(f) and array.filter(p), array.join(sep)
RECURSIVE MapTrim(_)
MapTrim(a) == IF a = <<>> THEN <<>> ELSE <<Trim(Head(a))>> \o MapTrim(Tail(a))

RECURSIVE FilterNonEmpty(_)
FilterNonEmpty(a) ==
    IF a = <<>> THEN <<>>
    ELSE IF Head(a) # <<>> THEN <<Head(a)>> \o FilterNonEmpty(Tail(a))
    ELSE FilterNonEmpty(Tail(a))

\* Array.from(new Set(a)): first occurrences, in order
RECURSIVE Dedupe(_)
Dedupe(a) ==
    IF a = <<>> THEN <<>>
    ELSE LET init == Dedupe(SubSeq(a, 1, Len(a) - 1))
             last == a[Len(a)]
         IN IF ArrayIncludes(init, last) THEN init ELSE Append(init, last)

RECURSIVE Join(_, _)
Join(a, sep) ==
    IF a = <<>> THEN <<>>
    ELSE IF Len(a) = 1 THEN a[1]
    ELSE a[1] \o sep \o Join(Tail(a), sep)

(***************************************************************************)
(* Defaults (index.ts 13-22)                                               *)
(***************************************************************************)
DEFAULT_MODEL_ID == <<"@cf/meta/llama-3.3-70b-instruct-fp8-fast">>
\* the prompt text is one symbol: no code looks inside it
DEFAULT_SYSTEM_PROMPT == <<"You are a helpful, friendly assistant named daddy. ...">>
DEFAULT_MAX_MESSAGE_LENGTH == 10000
DEFAULT_MAX_MESSAGES == 100
DEFAULT_MAX_TOKENS == 1024
DEFAULT_MAX_BODY_BYTES == 1000000
DEFAULT_RATE_LIMIT_REQUESTS == 20
DEFAULT_RATE_LIMIT_WINDOW_MS == 60000
MAX_CONTEXT_FIELD_LENGTH == 300

(***************************************************************************)
(* Config resolver                                                         *)
(***************************************************************************)
Digits == {"0", "1", "2", "3", "4", "5", "6", "7", "8", "9"}

DigitValue(c) ==
    CASE c = "0" -> 0 [] c = "1" -> 1 [] c = "2" -> 2 [] c = "3" -> 3
      [] c = "4" -> 4 [] c = "5" -> 5 [] c = "6" -> 6 [] c = "7" -> 7
      [] c = "8" -> 8 [] c = "9" -> 9

RECURSIVE DigitPrefix(_)
DigitPrefix(s) ==
    IF s # <<>> /\ Head(s) \in Digits THEN <<Head(s)>> \o DigitPrefix(Tail(s)) ELSE <<>>

RECURSIVE DigitsValue(_)
DigitsValue(d) ==
    IF d = <<>> THEN 0
    ELSE 10 * DigitsValue(SubSeq(d, 1, Len(d) - 1)) + DigitValue(d[Len(d)])

NaN == [t |-> "NaN"]

\* Number.parseInt(s, 10): leading white space, an optional sign, then the
\* longest run of decimal digits; NaN when there is no digit.
ParseInt10(s) ==
    LET t == TrimStart(s)
        signed == t # <<>> /\ Head(t) \in {"+", "-"}
        digits == DigitPrefix(IF signed THEN Tail(t) ELSE t)
    IN IF digits = <<>> THEN NaN
       ELSE JNum((IF signed /\ Head(t) = "-" THEN -1 ELSE 1) * DigitsValue(digits))

\* parsePositiveInt that lets zero through
parsePositiveIntAdmitsZero(value, fallback) ==
    LET parsed == ParseInt10(IF value.t = "string" THEN value.v ELSE <<>>)
    IN IF parsed.t = "NaN" \/ parsed.v < 0 THEN fallback ELSE parsed.v

\* value: a JStr or Undefined
parsePositiveInt(value, fallback) ==
    LET parsed == ParseInt10(IF value.t = "string" THEN value.v ELSE <<>>)
    IN IF parsed.t = "NaN" \/ parsed.v <= 0 THEN fallback ELSE parsed.v

\* parseModelAllowlist that always puts the default model first
parseModelAllowlistDefaultFirst(allowlistValue, defaultModel) ==
    LET models == FilterNonEmpty(MapTrim(Split(
                      IF allowlistValue.t = "string" THEN allowlistValue.v ELSE <<>>,
                      ",")))
    IN IF Len(models) = 0 THEN <<defaultModel>>
       ELSE Dedupe(<<defaultModel>> \o models)

\* allowlistValue: a JStr or Undefined; defaultModel: a string
parseModelAllowlist(allowlistValue, defaultModel) ==
    LET models == FilterNonEmpty(MapTrim(Split(
                      IF allowlistValue.t = "string" THEN allowlistValue.v ELSE <<>>,
                      ",")))
    IN IF Len(models) = 0 THEN <<defaultModel>>
       ELSE IF ~ArrayIncludes(models, defaultModel)
            THEN Dedupe(<<defaultModel>> \o models)
            ELSE Dedupe(models)

\* env.NAME
EnvGet(e, name) == IF name \in DOMAIN e THEN JStr(e[name]) ELSE Undefined

\* env.NAME || fallback, for string settings
EnvOr(e, name, fallback) ==
    IF Truthy(EnvGet(e, name)) THEN e[name] ELSE fallback

\* The configuration block at the head of handleChatRequest
Config(e) ==
    LET MODEL_ID == EnvOr(e, "MODEL_ID", DEFAULT_MODEL_ID)
    IN [MODEL_ID |-> MODEL_ID,
        MODEL_ALLOWLIST |-> parseModelAllowlist(EnvGet(e, "MODEL_ALLOWLIST"), MODEL_ID),
        SYSTEM_PROMPT |-> EnvOr(e, "SYSTEM_PROMPT", DEFAULT_SYSTEM_PROMPT),
        MAX_MESSAGE_LENGTH |->
            parsePositiveInt(EnvGet(e, "MAX_MESSAGE_LENGTH"), DEFAULT_MAX_MESSAGE_LENGTH),
        MAX_MESSAGES |-> parsePositiveInt(EnvGet(e, "MAX_MESSAGES"), DEFAULT_MAX_MESSAGES),
        MAX_TOKENS |-> parsePositiveInt(EnvGet(e, "MAX_TOKENS"), DEFAULT_MAX_TOKENS),
        MAX_BODY_BYTES |->
            parsePositiveInt(EnvGet(e, "MAX_BODY_BYTES"), DEFAULT_MAX_BODY_BYTES),
        RATE_LIMIT_REQUESTS |->
            parsePositiveInt(EnvGet(e, "RATE_LIMIT_REQUESTS"), DEFAULT_RATE_LIMIT_REQUESTS),
        RATE_LIMIT_WINDOW_MS |->
            parsePositiveInt(EnvGet(e, "RATE_LIMIT_WINDOW_MS"), DEFAULT_RATE_LIMIT_WINDOW_MS)]

(***************************************************************************)
(* Rate limiter (index.ts 292-314)                                         *)
(***************************************************************************)
\* MapSet that evicts the records whose window ends before the new record's
MapSetEvicting(map, identifier, record) ==
    [k \in {x \in DOMAIN map : map[x].resetTime >= record.resetTime} \cup {identifier} |->
        IF k = identifier THEN record ELSE map[k]]

\* rateLimitMap.set(identifier, record)
MapSet(map, identifier, record) ==
    [k \in DOMAIN map \cup {identifier} |->
        IF k = identifier THEN record ELSE map[k]]

\* checkRateLimit whose window slides: a limited call restarts the window
checkRateLimitSliding(map, identifier, maxRequests, windowMs, t) ==
    IF identifier \notin DOMAIN map \/ t > map[identifier].resetTime
    THEN [limited |-> FALSE,
          map |-> MapSet(map, identifier, [count |-> 1, resetTime |-> t + windowMs])]
    ELSE IF map[identifier].count >= maxRequests
    THEN [limited |-> TRUE,
          map |-> [map EXCEPT ![identifier].resetTime = t + windowMs]]
    ELSE [limited |-> FALSE,
          map |-> [map EXCEPT ![identifier].count = @ + 1]]

\* checkRateLimit whose window ends at resetTime (>= for >)
checkRateLimitExclusive(map, identifier, maxRequests, windowMs, t) ==
    IF identifier \notin DOMAIN map \/ t >= map[identifier].resetTime
    THEN [limited |-> FALSE,
          map |-> MapSet(map, identifier, [count |-> 1, resetTime |-> t + windowMs])]
    ELSE IF map[identifier].count >= maxRequests
    THEN [limited |-> TRUE, map |-> map]
    ELSE [limited |-> FALSE,
          map |-> [map EXCEPT ![identifier].count = @ + 1]]

\* checkRateLimit that counts the calls it limits as well
checkRateLimitCountsLimited(map, identifier, maxRequests, windowMs, t) ==
    IF identifier \notin DOMAIN map \/ t > map[identifier].resetTime
    THEN [limited |-> FALSE,
          map |-> MapSet(map, identifier, [count |-> 1, resetTime |-> t + windowMs])]
    ELSE IF map[identifier].count >= maxRequests
    THEN [limited |-> TRUE,
          map |-> [map EXCEPT ![identifier].count = @ + 1]]
    ELSE [limited |-> FALSE,
          map |-> [map EXCEPT ![identifier].count = @ + 1]]

\* checkRateLimit that lets one request too many through (> for >=)
checkRateLimitOffByOne(map, identifier, maxRequests, windowMs, t) ==
    IF identifier \notin DOMAIN map \/ t > map[identifier].resetTime
    THEN [limited |-> FALSE,
          map |-> MapSet(map, identifier, [count |-> 1, resetTime |-> t + windowMs])]
    ELSE IF map[identifier].count > maxRequests
    THEN [limited |-> TRUE, map |-> map]
    ELSE [limited |-> FALSE,
          map |-> [map EXCEPT ![identifier].count = @ + 1]]

\* checkRateLimit that compares the requests of all identifiers with the limit
checkRateLimitShared(map, identifier, maxRequests, windowMs, t) ==
    LET RECURSIVE Total(_)
        Total(ids) ==
            IF ids = {} THEN 0
            ELSE LET id == CHOOSE x \in ids : TRUE
                 IN map[id].count + Total(ids \ {id})
    IN IF identifier \notin DOMAIN map \/ t > map[identifier].resetTime
       THEN [limited |-> FALSE,
             map |-> MapSet(map, identifier, [count |-> 1, resetTime |-> t + windowMs])]
       ELSE IF Total(DOMAIN map) >= maxRequests
       THEN [limited |-> TRUE, map |-> map]
       ELSE [limited |-> FALSE,
             map |-> [map EXCEPT ![identifier].count = @ + 1]]

\* checkRateLimit that forgets to count a request it lets through
checkRateLimitNoIncrement(map, identifier, maxRequests, windowMs, t) ==
    IF identifier \notin DOMAIN map \/ t > map[identifier].resetTime
    THEN [limited |-> FALSE,
          map |-> MapSet(map, identifier, [count |-> 1, resetTime |-> t + windowMs])]
    ELSE IF map[identifier].count >= maxRequests
    THEN [limited |-> TRUE, map |-> map]
    ELSE [limited |-> FALSE, map |-> map]

\* checkRateLimit at time t on the table map: the value returned (limited)
\* and the table it leaves (map).
checkRateLimit(map, identifier, maxRequests, windowMs, t) ==
    IF identifier \notin DOMAIN map \/ t > map[identifier].resetTime
    THEN [limited |-> FALSE,
          map |-> MapSet(map, identifier, [count |-> 1, resetTime |-> t + windowMs])]
    ELSE IF map[identifier].count >= maxRequests
    THEN [limited |-> TRUE, map |-> map]
    ELSE [limited |-> FALSE,
          map |-> [map EXCEPT ![identifier].count = @ + 1]]

\* The history entry of one checkRateLimit call: its arguments, its time,
\* the record it found (before: the empty set when there was none), the
\* record it left (after) and the value it returned.
CallEntry(map, identifier, maxRequests, windowMs, t) ==
    [identifier |-> identifier,
     maxRequests |-> maxRequests,
     windowMs |-> windowMs,
     time |-> t,
     before |-> IF identifier \in DOMAIN map THEN {map[identifier]} ELSE {},
     after |-> checkRateLimit(map, identifier, maxRequests, windowMs, t).map[identifier],
     limited |-> checkRateLimit(map, identifier, maxRequests, windowMs, t).limited]

(***************************************************************************)
(* Context normalizer and prompt composer (index.ts 107-177)               *)
(***************************************************************************)
\* Date.parse succeeds on these strings only
ParsableDates == {<<"2026-01-02T03:04:05.000Z">>}

sanitizeContextValue(value) ==
    IF TypeOf(value) # "string" THEN Undefined
    ELSE LET trimmed == Trim(value.v)
         IN IF trimmed = <<>> THEN Undefined
            ELSE JStr(Slice0(trimmed, MAX_CONTEXT_FIELD_LENGTH))

\* normalizeClientContext that gives up on the whole context when the time
\* does not parse
normalizeClientContextRejectsBadTime(value) ==
    IF TypeOf(value) # "object" \/ value.t = "null" THEN Undefined
    ELSE LET currentTimeIso == sanitizeContextValue(Get(value, "currentTimeIso"))
             timeZone == sanitizeContextValue(Get(value, "timeZone"))
             locale == sanitizeContextValue(Get(value, "locale"))
             userAgent == sanitizeContextValue(Get(value, "userAgent"))
         IN IF Truthy(currentTimeIso) /\ currentTimeIso.v \notin ParsableDates
            THEN Undefined
            ELSE IF ~Truthy(currentTimeIso) /\ ~Truthy(timeZone)
                    /\ ~Truthy(locale) /\ ~Truthy(userAgent)
            THEN Undefined
            ELSE JObj([currentTimeIso |-> currentTimeIso,
                       timeZone |-> timeZone,
                       locale |-> locale,
                       userAgent |-> userAgent])

\* The result is Undefined or a context: a record of four fields, each a
\* JStr or Undefined.
normalizeClientContext(value) ==
    IF TypeOf(value) # "object" \/ value.t = "null" THEN Undefined
    ELSE LET currentTimeIso == sanitizeContextValue(Get(value, "currentTimeIso"))
             parsedTime ==
                 IF Truthy(currentTimeIso) /\ currentTimeIso.v \notin ParsableDates
                 THEN Undefined
                 ELSE currentTimeIso
             timeZone == sanitizeContextValue(Get(value, "timeZone"))
             locale == sanitizeContextValue(Get(value, "locale"))
             userAgent == sanitizeContextValue(Get(value, "userAgent"))
         IN IF ~Truthy(parsedTime) /\ ~Truthy(timeZone)
               /\ ~Truthy(locale) /\ ~Truthy(userAgent)
            THEN Undefined
            ELSE JObj([currentTimeIso |-> parsedTime,
                       timeZone |-> timeZone,
                       locale |-> locale,
                       userAgent |-> userAgent])

\* buildContextualSystemPrompt that pushes the locale line before the time zone
buildContextualSystemPromptLocaleFirst(basePrompt, clientContext) ==
    IF ~Truthy(clientContext) THEN basePrompt
    ELSE LET line(label, key) ==
                 IF Truthy(Get(clientContext, key))
                 THEN <<<<label>> \o Get(clientContext, key).v>>
                 ELSE <<>>
             contextLines ==
                 line("Current date/time (from user device): ", "currentTimeIso")
                 \o line("User locale: ", "locale")
                 \o line("User time zone: ", "timeZone")
                 \o line("User agent: ", "userAgent")
         IN IF Len(contextLines) = 0 THEN basePrompt
            ELSE basePrompt \o <<"\n", "\n", "Context:", "\n", "- ">>
                 \o Join(contextLines, <<"\n", "- ">>)

buildContextualSystemPrompt(basePrompt, clientContext) ==
    IF ~Truthy(clientContext) THEN basePrompt
    ELSE LET line(label, key) ==
                 IF Truthy(Get(clientContext, key))
                 THEN <<<<label>> \o Get(clientContext, key).v>>
                 ELSE <<>>
             contextLines ==
                 line("Current date/time (from user device): ", "currentTimeIso")
                 \o line("User time zone: ", "timeZone")
                 \o line("User locale: ", "locale")
                 \o line("User agent: ", "userAgent")
         IN IF Len(contextLines) = 0 THEN basePrompt
            ELSE basePrompt \o <<"\n", "\n", "Context:", "\n", "- ">>
                 \o Join(contextLines, <<"\n", "- ">>)

(***************************************************************************)
(* Response shaper (index.ts 80-100, 207-230)                              *)
(***************************************************************************)
\* Header names are kept in lower case, as the Headers class compares them.
JSON_HEADERS == [h \in {"content-type"} |-> "application/json"]

BASE_SECURITY_HEADERS ==
    [h \in {"x-content-type-options", "x-frame-options", "referrer-policy",
            "permissions-policy", "cross-origin-resource-policy",
            "cross-origin-opener-policy", "cross-origin-embedder-policy",
            "strict-transport-security"} |->
        CASE h = "x-content-type-options" -> "nosniff"
          [] h = "x-frame-options" -> "DENY"
          [] h = "referrer-policy" -> "strict-origin-when-cross-origin"
          [] h = "permissions-policy" -> "camera=(), microphone=(), geolocation=()"
          [] h = "cross-origin-resource-policy" -> "same-origin"
          [] h = "cross-origin-opener-policy" -> "same-origin"
          [] h = "cross-origin-embedder-policy" -> "require-corp"
          [] h = "strict-transport-security" ->
                 "max-age=63072000; includeSubDomains; preload"]

HTML_CONTENT_SECURITY_POLICY ==
    "default-src 'self'; script-src 'self'; style-src 'self' 'unsafe-inline'; img-src 'self' data:; connect-src 'self'; base-uri 'self'; form-action 'self'; frame-ancestors 'none'; object-src 'none'"

\* headers.set(name, value) for every name of the function extra
HeadersSet(headers, extra) ==
    [h \in DOMAIN headers \cup DOMAIN extra |->
        IF h \in DOMAIN extra THEN extra[h] ELSE headers[h]]

\* applySecurityHeaders that leaves a header alone when the response has it
applySecurityHeadersKeepExisting(response, options) ==
    LET base == HeadersSet(BASE_SECURITY_HEADERS, response.headers)
        cached == IF options.cacheControl # ""
                  THEN HeadersSet([h \in {"cache-control"} |-> options.cacheControl], base)
                  ELSE base
    IN [status |-> response.status,
        statusText |-> response.statusText,
        headers |-> cached,
        body |-> response.body]

\* applySecurityHeaders that builds the new Response without the status text
applySecurityHeadersNoStatusText(response, options) ==
    LET base == HeadersSet(response.headers, BASE_SECURITY_HEADERS)
        cached == IF options.cacheControl # ""
                  THEN HeadersSet(base, [h \in {"cache-control"} |-> options.cacheControl])
                  ELSE base
        headers == IF options.isHtml
                   THEN HeadersSet(cached,
                            [h \in {"content-security-policy"} |->
                                HTML_CONTENT_SECURITY_POLICY])
                   ELSE cached
    IN [status |-> response.status,
        statusText |-> "",
        headers |-> headers,
        body |-> response.body]

\* options.cacheControl is "" when it is not given; the result is a new
\* Response made of the input's body, status and statusText
applySecurityHeaders(response, options) ==
    LET base == HeadersSet(response.headers, BASE_SECURITY_HEADERS)
        cached == IF options.cacheControl # ""
                  THEN HeadersSet(base, [h \in {"cache-control"} |-> options.cacheControl])
                  ELSE base
        headers == IF options.isHtml
                   THEN HeadersSet(cached,
                            [h \in {"content-security-policy"} |->
                                HTML_CONTENT_SECURITY_POLICY])
                   ELSE cached
    IN [status |-> response.status,
        statusText |-> response.statusText,
        headers |-> headers,
        body |-> response.body]

NoStore == [isHtml |-> FALSE, cacheControl |-> "no-store"]

\* JsonError with the status repeated in the body
JsonErrorWithStatus(status, message, headers) ==
    [status |-> status,
     statusText |-> "",
     headers |-> headers,
     body |-> [t |-> "json", v |-> [error |-> message, status |-> status]]]

\* new Response(JSON.stringify({ error: message }), { status, headers })
JsonError(status, message, headers) ==
    [status |-> status,
     statusText |-> "",
     headers |-> headers,
     body |-> [t |-> "json", v |-> [error |-> message]]]

(***************************************************************************)
(* Requests.  headers: the request headers that are present, by lower-case *)
(* name.  body.bytes: the byte length request.arrayBuffer() yields.        *)
(* body.json: what JSON.parse makes of the body text, or Invalid when it   *)
(* throws.                                                                 *)
(***************************************************************************)
None == [t |-> "none"]
Invalid == [t |-> "invalid"]

\* request.headers.get(name)
HeaderGet(req, name) ==
    IF name \in DOMAIN req.headers THEN JStr(req.headers[name]) ELSE JNull

\* request.headers.get(name) || ""
HeaderOrEmpty(req, name) ==
    IF Truthy(HeaderGet(req, name)) THEN req.headers[name] ELSE <<>>

\* ClientIp that prefers X-Forwarded-For to CF-Connecting-IP
ClientIpForwardedFirst(req) ==
    LET forwardedFor == HeaderOrEmpty(req, "x-forwarded-for")
        forwardedIp == Trim(Split(forwardedFor, ",")[1])
        cfIp == HeaderOrEmpty(req, "cf-connecting-ip")
    IN IF forwardedIp # <<>> THEN forwardedIp
       ELSE IF cfIp # <<>> THEN cfIp
       ELSE <<"unknown">>

\* index.ts 369-374
ClientIp(req) ==
    LET forwardedFor == HeaderOrEmpty(req, "x-forwarded-for")
        forwardedIp == Trim(Split(forwardedFor, ",")[1])
        cfIp == HeaderOrEmpty(req, "cf-connecting-ip")
    IN IF cfIp # <<>> THEN cfIp
       ELSE IF forwardedIp # <<>> THEN forwardedIp
       ELSE <<"unknown">>

\* Math.floor(a / b) for a >= 0 and b > 0
FloorDiv(a, b) == a \div b

\* Math.ceil(a / b) for a >= 0 and b > 0
CeilDiv(a, b) == (a + b - 1) \div b

(***************************************************************************)
(* The responses handleChatRequest builds                                  *)
(***************************************************************************)
Response429(cfg) ==
    applySecurityHeaders(
        JsonError(429, "Rate limit exceeded. Please try again later.",
            HeadersSet(JSON_HEADERS,
                [h \in {"retry-after"} |->
                    ToString(CeilDiv(cfg.RATE_LIMIT_WINDOW_MS, 1000))])),
        NoStore)

Response415 ==
    applySecurityHeaders(
        JsonError(415, "Content-Type must be application/json", JSON_HEADERS),
        NoStore)

BodyTooLarge(maxBytes) ==
    JsonError(413,
        "Request body too large: maximum " \o ToString(maxBytes) \o " bytes allowed",
        JSON_HEADERS)

InvalidJson == JsonError(400, "Invalid JSON body", JSON_HEADERS)

Response400Messages ==
    applySecurityHeaders(
        JsonError(400, "Invalid request: messages must be an array of chat messages",
            JSON_HEADERS),
        NoStore)

Response400Count(cfg) ==
    applySecurityHeaders(
        JsonError(400,
            "Too many messages: maximum " \o ToString(cfg.MAX_MESSAGES)
                \o " messages allowed",
            JSON_HEADERS),
        NoStore)

Response400Length(cfg) ==
    applySecurityHeaders(
        JsonError(400,
            "Message too long: maximum " \o ToString(cfg.MAX_MESSAGE_LENGTH)
                \o " characters allowed",
            JSON_HEADERS),
        NoStore)

Response400Model ==
    applySecurityHeaders(
        JsonError(400,
            "Invalid model selection. Please choose a model from the allowed list.",
            JSON_HEADERS),
        NoStore)

\* a catch block that reports what was thrown
Response500Leaky(error) ==
    applySecurityHeaders(JsonError(500, error, JSON_HEADERS), NoStore)

\* the catch block (index.ts 526-535); error is what was thrown
Response500(error) ==
    applySecurityHeaders(
        JsonError(500, "Failed to process request", JSON_HEADERS),
        NoStore)

(***************************************************************************)
(* Request validator                                                       *)
(***************************************************************************)
VALID_ROLES == {<<"system">>, <<"user">>, <<"assistant">>}

\* isChatMessage that takes any string for a role
isChatMessageAnyRole(value) ==
    IF TypeOf(value) # "object" \/ value.t = "null" THEN FALSE
    ELSE LET role == Get(value, "role")
             content == Get(value, "content")
         IN /\ TypeOf(role) = "string"
            /\ TypeOf(content) = "string"

isChatMessage(value) ==
    IF TypeOf(value) # "object" \/ value.t = "null" THEN FALSE
    ELSE LET role == Get(value, "role")
             content == Get(value, "content")
         IN /\ TypeOf(role) = "string"
            /\ role.v \in VALID_ROLES
            /\ TypeOf(content) = "string"

\* parseJsonBodyWithLimit after request.arrayBuffer() has resolved.
\* checks: the checks it evaluated, in order.
parseJsonBodyWithLimit(body, maxBytes) ==
    IF body.bytes > maxBytes
    THEN [t |-> "error", error |-> BodyTooLarge(maxBytes), checks |-> <<"body-size">>]
    ELSE IF body.json.t = "invalid"
    THEN [t |-> "error", error |-> InvalidJson, checks |-> <<"body-size", "json">>]
    ELSE [t |-> "data", data |-> body.json, checks |-> <<"body-size", "json">>]

\* NormalizeMessages that copies every field of a message
RECURSIVE NormalizeMessagesKeepAll(_)
NormalizeMessagesKeepAll(messages) ==
    IF messages = <<>> THEN <<>>
    ELSE <<[f \in DOMAIN Head(messages).v |-> Head(messages).v[f].v]>>
         \o NormalizeMessagesKeepAll(Tail(messages))

\* messages.map(m => ({ role: m.role, content: m.content }))
RECURSIVE NormalizeMessages(_)
NormalizeMessages(messages) ==
    IF messages = <<>> THEN <<>>
    ELSE <<[role |-> Get(Head(messages), "role").v,
            content |-> Get(Head(messages), "content").v]>>
         \o NormalizeMessages(Tail(messages))

\* ProviderCall that looks for a system message in the first place only
ProviderCallFirstOnly(cfg, messages, requestedModel, clientContext) ==
    LET modelToUse == IF Truthy(requestedModel) THEN requestedModel.v ELSE cfg.MODEL_ID
        normalizedClientContext == normalizeClientContext(clientContext)
        contextualSystemPrompt ==
            buildContextualSystemPrompt(cfg.SYSTEM_PROMPT, normalizedClientContext)
        normalizedMessages == NormalizeMessages(messages)
    IN [model |-> modelToUse,
        messages |->
            IF normalizedMessages = <<>> \/ normalizedMessages[1].role # <<"system">>
            THEN <<[role |-> <<"system">>, content |-> contextualSystemPrompt]>>
                 \o normalizedMessages
            ELSE normalizedMessages,
        max_tokens |-> cfg.MAX_TOKENS,
        returnRawResponse |-> TRUE]

\* ProviderCall that falls back to the built-in model, whatever env.MODEL_ID
ProviderCallBuiltInDefault(cfg, messages, requestedModel, clientContext) ==
    LET modelToUse ==
            IF Truthy(requestedModel) THEN requestedModel.v ELSE DEFAULT_MODEL_ID
        normalizedClientContext == normalizeClientContext(clientContext)
        contextualSystemPrompt ==
            buildContextualSystemPrompt(cfg.SYSTEM_PROMPT, normalizedClientContext)
        normalizedMessages == NormalizeMessages(messages)
    IN [model |-> modelToUse,
        messages |->
            IF ~\E i \in DOMAIN normalizedMessages :
                    normalizedMessages[i].role = <<"system">>
            THEN <<[role |-> <<"system">>, content |-> contextualSystemPrompt]>>
                 \o normalizedMessages
            ELSE normalizedMessages,
        max_tokens |-> cfg.MAX_TOKENS,
        returnRawResponse |-> TRUE]

\* index.ts 487-512: the arguments of env.AI.run
ProviderCall(cfg, messages, requestedModel, clientContext) ==
    LET modelToUse == IF Truthy(requestedModel) THEN requestedModel.v ELSE cfg.MODEL_ID
        normalizedClientContext == normalizeClientContext(clientContext)
        contextualSystemPrompt ==
            buildContextualSystemPrompt(cfg.SYSTEM_PROMPT, normalizedClientContext)
        normalizedMessages == NormalizeMessages(messages)
    IN [model |-> modelToUse,
        messages |->
            IF ~\E i \in DOMAIN normalizedMessages :
                    normalizedMessages[i].role = <<"system">>
            THEN <<[role |-> <<"system">>, content |-> contextualSystemPrompt]>>
                 \o normalizedMessages
            ELSE normalizedMessages,
        max_tokens |-> cfg.MAX_TOKENS,
        returnRawResponse |-> TRUE]

(***************************************************************************)
(* handleChatRequest, cut at its two awaits.  Each part yields the         *)
(* invocation's next position (pc), the checks it evaluated, the response  *)
(* it returned (None while it has not returned) and the provider calls it  *)
(* made.                                                                   *)
(***************************************************************************)
\* BeforeBody with the declared length looked at before the content type
BeforeBodyLengthFirst(req, cfg, limited) ==
    LET contentType == HeaderOrEmpty(req, "content-type")
        contentLength == HeaderGet(req, "content-length")
        declared == IF Truthy(contentLength) THEN ParseInt10(contentLength.v) ELSE NaN
    IN IF limited
       THEN [pc |-> "done", checks |-> <<"rate-limit">>, resp |-> Response429(cfg)]
       ELSE IF declared.t = "number" /\ declared.v > cfg.MAX_BODY_BYTES
       THEN [pc |-> "done", checks |-> <<"rate-limit", "content-length">>,
             resp |-> applySecurityHeaders(BodyTooLarge(cfg.MAX_BODY_BYTES), NoStore)]
       ELSE IF ~Includes(contentType, "application/json")
       THEN [pc |-> "done",
             checks |-> <<"rate-limit", "content-length", "content-type">>,
             resp |-> Response415]
       ELSE [pc |-> "reading",
             checks |-> <<"rate-limit", "content-length", "content-type">>,
             resp |-> None]

\* BeforeBody that does not look at Content-Length
BeforeBodyNoLengthCheck(req, cfg, limited) ==
    LET contentType == HeaderOrEmpty(req, "content-type")
    IN IF limited
       THEN [pc |-> "done", checks |-> <<"rate-limit">>, resp |-> Response429(cfg)]
       ELSE IF ~Includes(contentType, "application/json")
       THEN [pc |-> "done", checks |-> <<"rate-limit", "content-type">>,
             resp |-> Response415]
       ELSE [pc |-> "reading",
             checks |-> <<"rate-limit", "content-type", "content-length">>,
             resp |-> None]

\* index.ts 376-418: from the rate-limit verdict to `await arrayBuffer()`
BeforeBody(req, cfg, limited) ==
    LET contentType == HeaderOrEmpty(req, "content-type")
        contentLength == HeaderGet(req, "content-length")
        declared == IF Truthy(contentLength) THEN ParseInt10(contentLength.v) ELSE NaN
    IN IF limited
       THEN [pc |-> "done", checks |-> <<"rate-limit">>, resp |-> Response429(cfg)]
       ELSE IF ~Includes(contentType, "application/json")
       THEN [pc |-> "done", checks |-> <<"rate-limit", "content-type">>,
             resp |-> Response415]
       ELSE IF declared.t = "number" /\ declared.v > cfg.MAX_BODY_BYTES
       THEN [pc |-> "done",
             checks |-> <<"rate-limit", "content-type", "content-length">>,
             resp |-> applySecurityHeaders(BodyTooLarge(cfg.MAX_BODY_BYTES), NoStore)]
       ELSE [pc |-> "reading",
             checks |-> <<"rate-limit", "content-type", "content-length">>,
             resp |-> None]

\* Validate that measures the first message only
ValidateFirstLength(body, cfg) ==
    LET messages == Get(body, "messages")
        model == Get(body, "model")
        clientContext == Get(body, "clientContext")
        requestedModel ==
            IF TypeOf(model) = "string" THEN JStr(Trim(model.v)) ELSE Undefined
    IN IF messages.t # "array" \/ ~\A i \in DOMAIN messages.v : isChatMessage(messages.v[i])
       THEN [pc |-> "done", checks |-> <<"messages">>,
             resp |-> Response400Messages, aiCalls |-> <<>>]
       ELSE IF Len(messages.v) > cfg.MAX_MESSAGES
       THEN [pc |-> "done", checks |-> <<"messages", "message-count">>,
             resp |-> Response400Count(cfg), aiCalls |-> <<>>]
       ELSE IF \E i \in DOMAIN messages.v :
                   i = 1 /\ Len(Get(messages.v[i], "content").v) > cfg.MAX_MESSAGE_LENGTH
       THEN [pc |-> "done", checks |-> <<"messages", "message-count", "message-length">>,
             resp |-> Response400Length(cfg), aiCalls |-> <<>>]
       ELSE IF Truthy(requestedModel)
               /\ ~ArrayIncludes(cfg.MODEL_ALLOWLIST, requestedModel.v)
       THEN [pc |-> "done",
             checks |-> <<"messages", "message-count", "message-length", "model">>,
             resp |-> Response400Model, aiCalls |-> <<>>]
       ELSE [pc |-> "running",
             checks |-> <<"messages", "message-count", "message-length", "model">>,
             resp |-> None,
             aiCalls |-> <<ProviderCall(cfg, messages.v, requestedModel, clientContext)>>]

\* Validate that refuses a sequence of exactly MAX_MESSAGES messages
ValidateCountOffByOne(body, cfg) ==
    LET messages == Get(body, "messages")
        model == Get(body, "model")
        clientContext == Get(body, "clientContext")
        requestedModel ==
            IF TypeOf(model) = "string" THEN JStr(Trim(model.v)) ELSE Undefined
    IN IF messages.t # "array" \/ ~\A i \in DOMAIN messages.v : isChatMessage(messages.v[i])
       THEN [pc |-> "done", checks |-> <<"messages">>,
             resp |-> Response400Messages, aiCalls |-> <<>>]
       ELSE IF Len(messages.v) >= cfg.MAX_MESSAGES
       THEN [pc |-> "done", checks |-> <<"messages", "message-count">>,
             resp |-> Response400Count(cfg), aiCalls |-> <<>>]
       ELSE IF \E i \in DOMAIN messages.v :
                   Len(Get(messages.v[i], "content").v) > cfg.MAX_MESSAGE_LENGTH
       THEN [pc |-> "done", checks |-> <<"messages", "message-count", "message-length">>,
             resp |-> Response400Length(cfg), aiCalls |-> <<>>]
       ELSE IF Truthy(requestedModel)
               /\ ~ArrayIncludes(cfg.MODEL_ALLOWLIST, requestedModel.v)
       THEN [pc |-> "done",
             checks |-> <<"messages", "message-count", "message-length", "model">>,
             resp |-> Response400Model, aiCalls |-> <<>>]
       ELSE [pc |-> "running",
             checks |-> <<"messages", "message-count", "message-length", "model">>,
             resp |-> None,
             aiCalls |-> <<ProviderCall(cfg, messages.v, requestedModel, clientContext)>>]

\* Validate that compares the model as it was sent, white space included
ValidateModelUntrimmed(body, cfg) ==
    LET messages == Get(body, "messages")
        model == Get(body, "model")
        clientContext == Get(body, "clientContext")
        requestedModel ==
            IF TypeOf(model) = "string" THEN JStr(model.v) ELSE Undefined
    IN IF messages.t # "array" \/ ~\A i \in DOMAIN messages.v : isChatMessage(messages.v[i])
       THEN [pc |-> "done", checks |-> <<"messages">>,
             resp |-> Response400Messages, aiCalls |-> <<>>]
       ELSE IF Len(messages.v) > cfg.MAX_MESSAGES
       THEN [pc |-> "done", checks |-> <<"messages", "message-count">>,
             resp |-> Response400Count(cfg), aiCalls |-> <<>>]
       ELSE IF \E i \in DOMAIN messages.v :
                   Len(Get(messages.v[i], "content").v) > cfg.MAX_MESSAGE_LENGTH
       THEN [pc |-> "done", checks |-> <<"messages", "message-count", "message-length">>,
             resp |-> Response400Length(cfg), aiCalls |-> <<>>]
       ELSE IF Truthy(requestedModel)
               /\ ~ArrayIncludes(cfg.MODEL_ALLOWLIST, requestedModel.v)
       THEN [pc |-> "done",
             checks |-> <<"messages", "message-count", "message-length", "model">>,
             resp |-> Response400Model, aiCalls |-> <<>>]
       ELSE [pc |-> "running",
             checks |-> <<"messages", "message-count", "message-length", "model">>,
             resp |-> None,
             aiCalls |-> <<ProviderCall(cfg, messages.v, requestedModel, clientContext)>>]

\* Validate that refuses an empty sequence of messages
ValidateRejectsEmpty(body, cfg) ==
    LET messages == Get(body, "messages")
        model == Get(body, "model")
        clientContext == Get(body, "clientContext")
        requestedModel ==
            IF TypeOf(model) = "string" THEN JStr(Trim(model.v)) ELSE Undefined
    IN IF messages.t # "array" \/ messages.v = <<>>
          \/ ~\A i \in DOMAIN messages.v : isChatMessage(messages.v[i])
       THEN [pc |-> "done", checks |-> <<"messages">>,
             resp |-> Response400Messages, aiCalls |-> <<>>]
       ELSE IF Len(messages.v) > cfg.MAX_MESSAGES
       THEN [pc |-> "done", checks |-> <<"messages", "message-count">>,
             resp |-> Response400Count(cfg), aiCalls |-> <<>>]
       ELSE IF \E i \in DOMAIN messages.v :
                   Len(Get(messages.v[i], "content").v) > cfg.MAX_MESSAGE_LENGTH
       THEN [pc |-> "done", checks |-> <<"messages", "message-count", "message-length">>,
             resp |-> Response400Length(cfg), aiCalls |-> <<>>]
       ELSE IF Truthy(requestedModel)
               /\ ~ArrayIncludes(cfg.MODEL_ALLOWLIST, requestedModel.v)
       THEN [pc |-> "done",
             checks |-> <<"messages", "message-count", "message-length", "model">>,
             resp |-> Response400Model, aiCalls |-> <<>>]
       ELSE [pc |-> "running",
             checks |-> <<"messages", "message-count", "message-length", "model">>,
             resp |-> None,
             aiCalls |-> <<ProviderCall(cfg, messages.v, requestedModel, clientContext)>>]

\* Validate that refuses a model that is present and is not a string
ValidateRejectsNonStringModel(body, cfg) ==
    LET messages == Get(body, "messages")
        model == Get(body, "model")
        clientContext == Get(body, "clientContext")
        requestedModel ==
            IF TypeOf(model) = "string" THEN JStr(Trim(model.v)) ELSE Undefined
    IN IF messages.t # "array" \/ ~\A i \in DOMAIN messages.v : isChatMessage(messages.v[i])
       THEN [pc |-> "done", checks |-> <<"messages">>,
             resp |-> Response400Messages, aiCalls |-> <<>>]
       ELSE IF Len(messages.v) > cfg.MAX_MESSAGES
       THEN [pc |-> "done", checks |-> <<"messages", "message-count">>,
             resp |-> Response400Count(cfg), aiCalls |-> <<>>]
       ELSE IF \E i \in DOMAIN messages.v :
                   Len(Get(messages.v[i], "content").v) > cfg.MAX_MESSAGE_LENGTH
       THEN [pc |-> "done", checks |-> <<"messages", "message-count", "message-length">>,
             resp |-> Response400Length(cfg), aiCalls |-> <<>>]
       ELSE IF \/ model.t \notin {"undefined", "string"}
               \/ Truthy(requestedModel)
                  /\ ~ArrayIncludes(cfg.MODEL_ALLOWLIST, requestedModel.v)
       THEN [pc |-> "done",
             checks |-> <<"messages", "message-count", "message-length", "model">>,
             resp |-> Response400Model, aiCalls |-> <<>>]
       ELSE [pc |-> "running",
             checks |-> <<"messages", "message-count", "message-length", "model">>,
             resp |-> None,
             aiCalls |-> <<ProviderCall(cfg, messages.v, requestedModel, clientContext)>>]

\* Validate that destructures the body as it is: null throws a TypeError
ValidateDestructuresNull(body, cfg) ==
    LET messages == Get(body, "messages")
        model == Get(body, "model")
        clientContext == Get(body, "clientContext")
        requestedModel ==
            IF TypeOf(model) = "string" THEN JStr(Trim(model.v)) ELSE Undefined
    IN IF body.t = "null"
       THEN [pc |-> "done", checks |-> <<"messages">>,
             resp |-> Response500("TypeError"), aiCalls |-> <<>>]
       ELSE IF messages.t # "array"
               \/ ~\A i \in DOMAIN messages.v : isChatMessage(messages.v[i])
       THEN [pc |-> "done", checks |-> <<"messages">>,
             resp |-> Response400Messages, aiCalls |-> <<>>]
       ELSE IF Len(messages.v) > cfg.MAX_MESSAGES
       THEN [pc |-> "done", checks |-> <<"messages", "message-count">>,
             resp |-> Response400Count(cfg), aiCalls |-> <<>>]
       ELSE IF \E i \in DOMAIN messages.v :
                   Len(Get(messages.v[i], "content").v) > cfg.MAX_MESSAGE_LENGTH
       THEN [pc |-> "done", checks |-> <<"messages", "message-count", "message-length">>,
             resp |-> Response400Length(cfg), aiCalls |-> <<>>]
       ELSE IF Truthy(requestedModel)
               /\ ~ArrayIncludes(cfg.MODEL_ALLOWLIST, requestedModel.v)
       THEN [pc |-> "done",
             checks |-> <<"messages", "message-count", "message-length", "model">>,
             resp |-> Response400Model, aiCalls |-> <<>>]
       ELSE [pc |-> "running",
             checks |-> <<"messages", "message-count", "message-length", "model">>,
             resp |-> None,
             aiCalls |-> <<ProviderCall(cfg, messages.v, requestedModel, clientContext)>>]

\* index.ts 427-522: from the parsed body to `await env.AI.run(...)`
Validate(body, cfg) ==
    LET messages == Get(body, "messages")
        model == Get(body, "model")
        clientContext == Get(body, "clientContext")
        requestedModel ==
            IF TypeOf(model) = "string" THEN JStr(Trim(model.v)) ELSE Undefined
    IN IF messages.t # "array" \/ ~\A i \in DOMAIN messages.v : isChatMessage(messages.v[i])
       THEN [pc |-> "done", checks |-> <<"messages">>,
             resp |-> Response400Messages, aiCalls |-> <<>>]
       ELSE IF Len(messages.v) > cfg.MAX_MESSAGES
       THEN [pc |-> "done", checks |-> <<"messages", "message-count">>,
             resp |-> Response400Count(cfg), aiCalls |-> <<>>]
       ELSE IF \E i \in DOMAIN messages.v :
                   Len(Get(messages.v[i], "content").v) > cfg.MAX_MESSAGE_LENGTH
       THEN [pc |-> "done", checks |-> <<"messages", "message-count", "message-length">>,
             resp |-> Response400Length(cfg), aiCalls |-> <<>>]
       ELSE IF Truthy(requestedModel)
               /\ ~ArrayIncludes(cfg.MODEL_ALLOWLIST, requestedModel.v)
       THEN [pc |-> "done",
             checks |-> <<"messages", "message-count", "message-length", "model">>,
             resp |-> Response400Model, aiCalls |-> <<>>]
       ELSE [pc |-> "running",
             checks |-> <<"messages", "message-count", "message-length", "model">>,
             resp |-> None,
             aiCalls |-> <<ProviderCall(cfg, messages.v, requestedModel, clientContext)>>]

\* AfterBody that takes a declared length for the size of the body
AfterBodyTrustsDeclared(req, cfg) ==
    LET contentLength == HeaderGet(req, "content-length")
        declared == IF Truthy(contentLength) THEN ParseInt10(contentLength.v) ELSE NaN
        parsedBody ==
            parseJsonBodyWithLimit(
                IF declared.t = "number"
                THEN [req.body EXCEPT !.bytes = declared.v]
                ELSE req.body,
                cfg.MAX_BODY_BYTES)
        rest == Validate(parsedBody.data, cfg)
    IN IF parsedBody.t = "error"
       THEN [pc |-> "done", checks |-> parsedBody.checks,
             resp |-> applySecurityHeaders(parsedBody.error, NoStore),
             aiCalls |-> <<>>]
       ELSE [rest EXCEPT !.checks = parsedBody.checks \o rest.checks]

\* index.ts 420-522: request.arrayBuffer() has resolved
AfterBody(req, cfg) ==
    LET parsedBody == parseJsonBodyWithLimit(req.body, cfg.MAX_BODY_BYTES)
        rest == Validate(parsedBody.data, cfg)
    IN IF parsedBody.t = "error"
       THEN [pc |-> "done", checks |-> parsedBody.checks,
             resp |-> applySecurityHeaders(parsedBody.error, NoStore),
             aiCalls |-> <<>>]
       ELSE [rest EXCEPT !.checks = parsedBody.checks \o rest.checks]

\* index.ts 524-535: env.AI.run has settled
AfterProvider(outcome) ==
    IF outcome.t = "reject"
    THEN Response500(outcome.error)
    ELSE applySecurityHeaders(outcome.response, NoStore)

(***************************************************************************)
(* Inputs                                                                  *)
(***************************************************************************)
EmptyFn == [x \in {} |-> <<>>]

BaseEnv ==
    [MODEL_ALLOWLIST |-> <<"m1", ",", " ", "m2">>,
     MAX_MESSAGE_LENGTH |-> <<"3">>,
     MAX_MESSAGES |-> <<"1">>,
     MAX_BODY_BYTES |-> <<"2", "0", "0">>]

\* RATE_LIMIT_REQUESTS and RATE_LIMIT_WINDOW_MS
EnvWith(requests, windowMs) ==
    ("RATE_LIMIT_REQUESTS" :> requests) @@ ("RATE_LIMIT_WINDOW_MS" :> windowMs) @@ BaseEnv

\* the environments of the sequential runs and of the concurrent runs
Envs ==
    {EnvWith(<<"1">>, <<"1">>),
     EnvWith(<<"1">>, <<"1", "0", "0", "1">>),
     EnvWith(<<"1">>, <<"6", "0", "0", "0", "0">>)}

ConcEnvs == {EnvWith(<<"1">>, <<"2">>), EnvWith(<<"2">>, <<"2">>)}

\* the environments of the runs over the validator's inputs: limits small
\* enough to be reached, the window left to its default, and the default
\* model and the token limit either left to their defaults or set
ReqEnv ==
    [MODEL_ALLOWLIST |-> <<"m1", ",", " ", "m2">>,
     MAX_MESSAGE_LENGTH |-> <<"3">>,
     MAX_MESSAGES |-> <<"2">>,
     MAX_BODY_BYTES |-> <<"2", "0", "0">>,
     RATE_LIMIT_REQUESTS |-> <<"2">>]

ReqEnvs ==
    {ReqEnv,
     ("MODEL_ID" :> <<"m0">>) @@ ("MAX_TOKENS" :> <<"7">>) @@ ReqEnv}

\* handleChatRequest resolves its configuration anew on every call; the
\* environment does not change, so the result is tabulated once.
Resolved == [e \in Envs \cup ConcEnvs \cup ReqEnvs |-> Config(e)]

IpHeaders ==
    {"cf-connecting-ip" :> <<"ip-a">>,
     "x-forwarded-for" :> <<" ", "ip-b", ",", "ip-c">>}

ContentTypes == {<<"application/json", ";", " ", "charset=utf-8">>, <<"text/plain">>}

ContentLengths == {EmptyFn, "content-length" :> <<"2", "0", "1">>}

HeaderSets ==
    {ip @@ ("content-type" :> ct) @@ cl :
        ip \in IpHeaders, ct \in ContentTypes, cl \in ContentLengths}

Message(role, content) == JObj([role |-> JStr(role), content |-> JStr(content)])

mOk == Message(<<"user">>, <<"h", "i">>)
mLong == Message(<<"user">>, <<"h", "e", "l", "p">>)
mBad == Message(<<"admin">>, <<"h", "i">>)
mBadLong == Message(<<"admin">>, <<"h", "e", "l", "p">>)

MessageLists ==
    {<<mOk>>, <<mBad>>, <<mOk, mOk>>, <<mLong>>,
     <<mOk, mBad>>, <<mBadLong>>, <<mOk, mLong>>, <<mBad, mLong>>}

SomeContext ==
    JObj([timeZone |-> JStr(<<" ", "Europe/Paris">>),
          currentTimeIso |-> JStr(<<"yesterday">>)])

JsonBodies ==
    {JObj("messages" :> JArr(m)) : m \in MessageLists}
    \cup {JObj(("messages" :> JArr(m)) @@ ("model" :> JStr(<<"evil">>))) :
            m \in MessageLists}
    \cup {JObj(("messages" :> JArr(<<mOk>>)) @@ ("model" :> JStr(<<"m2", " ">>))),
          JObj(("messages" :> JArr(<<mOk>>)) @@ ("clientContext" :> SomeContext))}

BodySizes == {150, 201}

Bodies == {[bytes |-> n, json |-> j] : n \in BodySizes, j \in JsonBodies \cup {Invalid}}

Requests == {[headers |-> h, body |-> b] : h \in HeaderSets, b \in Bodies}

\* the requests of the concurrent runs: well-formed, all from one client
CoreRequests ==
    {[headers |-> ("cf-connecting-ip" :> <<"ip-a">>)
                  @@ ("content-type" :> <<"application/json">>),
      body |-> [bytes |-> 150, json |-> JObj("messages" :> JArr(<<mOk>>))]]}

\* what request.arrayBuffer() does
ReadOutcomes == {[t |-> "ok"], [t |-> "throw", error |-> "body stream error"]}

Stream == [t |-> "stream", v |-> "chunks"]

\* what env.AI.run does: it rejects, or it resolves with the raw response
ProviderOutcomes ==
    {[t |-> "reject", error |-> "AI service error"],
     [t |-> "response",
      response |-> [status |-> 200,
                    statusText |-> "OK",
                    headers |-> [h \in {"content-type"} |-> "text/event-stream"],
                    body |-> Stream]],
     [t |-> "response",
      response |-> [status |-> 200,
                    statusText |-> "OK",
                    headers |-> ("content-type" :> "text/event-stream")
                                @@ ("cache-control" :> "public, max-age=60")
                                @@ ("x-frame-options" :> "SAMEORIGIN")
                                @@ ("retry-after" :> "5"),
                    body |-> Stream]]}

(***************************************************************************)
(* State machine                                                           *)
(***************************************************************************)
Idle ==
    [pc |-> "idle", req |-> None, limited |-> FALSE, checks |-> <<>>,
     aiCalls |-> <<>>, thrown |-> None, outcome |-> None, resp |-> None]

\* Start that checks the content type before it charges the quota
StartValidatesFirst(s, req) ==
    /\ inv[s].pc = "idle"
    /\ LET cfg == Resolved[env]
           clientIp == ClientIp(req)
           rl == checkRateLimit(rateLimitMap, clientIp,
                     cfg.RATE_LIMIT_REQUESTS, cfg.RATE_LIMIT_WINDOW_MS, now)
           step == BeforeBody(req, cfg, rl.limited)
       IN IF ~Includes(HeaderOrEmpty(req, "content-type"), "application/json")
          THEN /\ inv' = [inv EXCEPT ![s] =
                      [Idle EXCEPT !.pc = "done", !.req = req,
                                   !.checks = <<"rate-limit", "content-type">>,
                                   !.resp = Response415]]
               /\ UNCHANGED <<rateLimitMap, calls>>
          ELSE /\ rateLimitMap' = rl.map
               /\ calls' = Append(calls,
                      CallEntry(rateLimitMap, clientIp,
                          cfg.RATE_LIMIT_REQUESTS, cfg.RATE_LIMIT_WINDOW_MS, now))
               /\ inv' = [inv EXCEPT ![s] =
                      [Idle EXCEPT !.pc = step.pc, !.req = req, !.limited = rl.limited,
                                   !.checks = step.checks, !.resp = step.resp]]
    /\ UNCHANGED <<now, env>>

\* handleChatRequest is entered and runs to its first await or return
Start(s, req) ==
    /\ inv[s].pc = "idle"
    /\ LET cfg == Resolved[env]
           clientIp == ClientIp(req)
           rl == checkRateLimit(rateLimitMap, clientIp,
                     cfg.RATE_LIMIT_REQUESTS, cfg.RATE_LIMIT_WINDOW_MS, now)
           step == BeforeBody(req, cfg, rl.limited)
       IN /\ rateLimitMap' = rl.map
          /\ calls' = Append(calls,
                 CallEntry(rateLimitMap, clientIp,
                     cfg.RATE_LIMIT_REQUESTS, cfg.RATE_LIMIT_WINDOW_MS, now))
          /\ inv' = [inv EXCEPT ![s] =
                 [Idle EXCEPT !.pc = step.pc, !.req = req, !.limited = rl.limited,
                              !.checks = step.checks, !.resp = step.resp]]
    /\ UNCHANGED <<now, env>>

\* BodyRead that lets what request.arrayBuffer() throws escape the handler
BodyReadUncaught(s, read) ==
    /\ inv[s].pc = "reading"
    /\ LET step == AfterBody(inv[s].req, Resolved[env])
       IN inv' = [inv EXCEPT ![s] =
              IF read.t = "throw"
              THEN [@ EXCEPT !.pc = "done", !.thrown = read]
              ELSE [@ EXCEPT !.pc = step.pc, !.checks = @ \o step.checks,
                             !.aiCalls = @ \o step.aiCalls, !.resp = step.resp]]
    /\ UNCHANGED <<now, rateLimitMap, calls, env>>

\* request.arrayBuffer() settles; the handler runs to env.AI.run or returns
BodyRead(s, read) ==
    /\ inv[s].pc = "reading"
    /\ LET step == AfterBody(inv[s].req, Resolved[env])
       IN inv' = [inv EXCEPT ![s] =
              IF read.t = "throw"
              THEN [@ EXCEPT !.pc = "done", !.thrown = read,
                             !.resp = Response500(read.error)]
              ELSE [@ EXCEPT !.pc = step.pc, !.checks = @ \o step.checks,
                             !.aiCalls = @ \o step.aiCalls, !.resp = step.resp]]
    /\ UNCHANGED <<now, rateLimitMap, calls, env>>

\* ProviderSettle with one retry of a failed provider call
ProviderSettleRetry(s, outcome) ==
    /\ inv[s].pc = "running"
    /\ inv' = [inv EXCEPT ![s] =
           IF outcome.t = "reject" /\ Len(@.aiCalls) < 2
           THEN [@ EXCEPT !.aiCalls = @ \o @]
           ELSE [@ EXCEPT !.pc = "done", !.outcome = outcome,
                          !.thrown = IF outcome.t = "reject" THEN outcome ELSE None,
                          !.resp = AfterProvider(outcome)]]
    /\ UNCHANGED <<now, rateLimitMap, calls, env>>

\* env.AI.run settles; the handler returns
ProviderSettle(s, outcome) ==
    /\ inv[s].pc = "running"
    /\ inv' = [inv EXCEPT ![s] =
           [@ EXCEPT !.pc = "done", !.outcome = outcome,
                     !.thrown = IF outcome.t = "reject" THEN outcome ELSE None,
                     !.resp = AfterProvider(outcome)]]
    /\ UNCHANGED <<now, rateLimitMap, calls, env>>

\* the response has been handed to the runtime; the slot is free again
Respond(s) ==
    /\ inv[s].pc = "done"
    /\ inv' = [inv EXCEPT ![s] = Idle]
    /\ UNCHANGED <<now, rateLimitMap, calls, env>>

\* the clock moves to a later instant t
Tick(t) ==
    /\ t > now
    /\ now' = t
    /\ UNCHANGED <<rateLimitMap, calls, env, inv>>

\* The clock is read at time 0 and one millisecond after each of the first
\* MaxWindows windows has elapsed.
MaxWindows == 1

Instants ==
    {k * (Resolved[env].RATE_LIMIT_WINDOW_MS + 1) : k \in 0..MaxWindows}

ReadSettles == \E s \in DOMAIN inv, read \in ReadOutcomes : BodyRead(s, read)

ProviderSettles ==
    \E s \in DOMAIN inv, outcome \in ProviderOutcomes : ProviderSettle(s, outcome)

Return == \E s \in DOMAIN inv : Respond(s)

TimePasses == \E t \in Instants : Tick(t)

(***************************************************************************)
(* Spec: one invocation at a time, over every request of Requests.         *)
(***************************************************************************)
MaxCalls == 2

Init ==
    /\ now = 0
    /\ rateLimitMap = EmptyFn
    /\ calls = <<>>
    /\ env \in Envs
    /\ inv = [s \in {1} |-> Idle]

Arrive == \E s \in DOMAIN inv, req \in Requests : Len(calls) < MaxCalls /\ Start(s, req)

Next == Arrive \/ ReadSettles \/ ProviderSettles \/ Return \/ TimePasses

Spec == Init /\ [][Next]_vars

(***************************************************************************)
(* SpecConc: NumSlots invocations in flight at once, interleaved at their  *)
(* awaits, all sent by one client.                                         *)
(***************************************************************************)
NumSlots == 2
ConcMaxCalls == 3

InitConc ==
    /\ now = 0
    /\ rateLimitMap = EmptyFn
    /\ calls = <<>>
    /\ env \in ConcEnvs
    /\ inv = [s \in 1..NumSlots |-> Idle]

ArriveConc ==
    \E s \in DOMAIN inv, req \in CoreRequests :
        Len(calls) < ConcMaxCalls /\ Start(s, req)

NextConc == ArriveConc \/ ReadSettles \/ ProviderSettles \/ Return \/ TimePasses

SpecConc == InitConc /\ [][NextConc]_vars

(***************************************************************************)
(* SpecRL: checkRateLimit called directly, as the unit tests call it, with *)
(* arguments chosen anew for every call.                                   *)
(***************************************************************************)
RLIdentifiers == {<<"ip-a">>, <<"ip-b">>}
\* the (maxRequests, windowMs) pairs a call may be made with
RLParameters == {<<1, 1>>, <<1, 2>>, <<2, 2>>}
RLMaxCalls == 4
RLMaxTime == 3

\* one call of checkRateLimit(identifier, maxRequests, windowMs)
CallCheckRateLimit(identifier, maxRequests, windowMs) ==
    /\ rateLimitMap' =
           checkRateLimit(rateLimitMap, identifier, maxRequests, windowMs, now).map
    /\ calls' = Append(calls,
           CallEntry(rateLimitMap, identifier, maxRequests, windowMs, now))
    /\ UNCHANGED <<now, env, inv>>

InitRL ==
    /\ now = 0
    /\ rateLimitMap = EmptyFn
    /\ calls = <<>>
    /\ env = EmptyFn
    /\ inv = <<>>

Check ==
    \E identifier \in RLIdentifiers, p \in RLParameters :
        Len(calls) < RLMaxCalls /\ CallCheckRateLimit(identifier, p[1], p[2])

Advance == now < RLMaxTime /\ Tick(now + 1)

NextRL == Check \/ Advance

SpecRL == InitRL /\ [][NextRL]_vars

(***************************************************************************)
(* SpecReq: one invocation at a time over the inputs of the validator:     *)
(* message sequences of every shape and length around the limits, model    *)
(* fields, declared and actual body sizes, and client address headers.     *)
(***************************************************************************)
JsonContentType == "content-type" :> <<"application/json">>

\* CF-Connecting-IP and X-Forwarded-For: absent, empty, or with a value
ReqIpHeaders ==
    {EmptyFn,
     "cf-connecting-ip" :> <<"ip-a">>,
     "x-forwarded-for" :> <<"ip-b", ",", "ip-c">>,
     "x-forwarded-for" :> <<" ", "ip-b", " ", ",", " ", "ip-d">>,
     "x-forwarded-for" :> <<" ", ",", "ip-c">>,
     ("cf-connecting-ip" :> <<"ip-a">>) @@ ("x-forwarded-for" :> <<"ip-b", ",", "ip-c">>),
     ("cf-connecting-ip" :> <<>>) @@ ("x-forwarded-for" :> <<"ip-b", ",", "ip-c">>)}

\* Content-Length: absent, below, at and above MAX_BODY_BYTES, not a number
ReqContentLengths ==
    {EmptyFn,
     "content-length" :> <<"1", "0", "0">>,
     "content-length" :> <<"2", "0", "0">>,
     "content-length" :> <<"2", "0", "1">>,
     "content-length" :> <<"abc">>}

mSys == Message(<<"system">>, <<"b", "e">>)
mMax == Message(<<"assistant">>, <<"h", "e", "y">>)
mExtra ==
    JObj([role |-> JStr(<<"user">>), content |-> JStr(<<"y", "o">>),
          name |-> JStr(<<"n">>), id |-> JNum(7)])

ReqMessages == {mOk, mSys, mMax, mExtra, mLong}

\* every sequence of up to three messages of ReqMessages
WellFormedLists ==
    {<<>>} \cup UNION {[1..n -> ReqMessages] : n \in 1..3}

\* values that are not chat messages
NotMessages ==
    {JNull, JNum(5), JStr(<<"h", "i">>), JArr(<<>>), JObj(EmptyFn),
     JObj([content |-> JStr(<<"h", "i">>)]),
     JObj([role |-> JStr(<<"user">>)]),
     JObj([role |-> JNum(1), content |-> JStr(<<"h", "i">>)]),
     JObj([role |-> JStr(<<"user">>), content |-> JNum(1)]),
     JObj([role |-> JStr(<<"user">>), content |-> JNull]),
     mBad, mBadLong}

\* a value that is not a chat message, at each place of a short sequence
MalformedLists ==
    {<<x>> : x \in NotMessages}
    \cup {<<mOk, x>> : x \in NotMessages}
    \cup {<<x, mOk>> : x \in NotMessages}
    \cup {<<mOk, mOk, x>> : x \in NotMessages}

\* the model field: allowed, allowed once trimmed, the configured default,
\* not allowed, blank, not a string
ReqModels ==
    {JStr(<<"m1">>), JStr(<<" ", "m2", " ">>), JStr(<<"m0">>), JStr(<<"evil">>),
     JStr(<<"M1">>), JStr(<<>>), JStr(<<" ", " ">>), JNum(5), JNull,
     JBool(TRUE), JObj([id |-> JStr(<<"evil">>)]), JArr(<<JStr(<<"evil">>)>>)}

ReqJsonBodies ==
    {JObj("messages" :> JArr(m)) : m \in WellFormedLists \cup MalformedLists}
    \cup {JObj(("messages" :> JArr(m)) @@ ("clientContext" :> SomeContext)) :
            m \in {<<>>, <<mOk>>, <<mOk, mSys>>, <<mSys, mOk>>}}
    \cup {JObj(("messages" :> JArr(m)) @@ ("model" :> model)) :
            m \in {<<mOk>>, <<mSys, mExtra>>, <<mLong>>}, model \in ReqModels}
    \cup {JObj(EmptyFn), JObj("messages" :> JNull),
          JObj("messages" :> JStr(<<"h", "i">>)), JObj("messages" :> mOk),
          JNull, JNum(5), JStr(<<"h", "i">>), JBool(TRUE), JBool(FALSE),
          JArr(<<>>), JArr(<<mOk>>), Invalid}

\* bodies of 150 bytes under plain headers and the bodies of a few kinds at
\* every size under every combination of the headers
ReqRequests ==
    {[headers |-> ("cf-connecting-ip" :> <<"ip-a">>) @@ JsonContentType,
      body |-> [bytes |-> 150, json |-> j]] : j \in ReqJsonBodies}
    \cup {[headers |-> ip @@ JsonContentType @@ cl, body |-> [bytes |-> n, json |-> j]] :
            ip \in ReqIpHeaders, cl \in ReqContentLengths, n \in {150, 200, 201},
            j \in {JObj("messages" :> JArr(<<mOk>>)), Invalid}}

ReqMaxCalls == 2

InitReq ==
    /\ now = 0
    /\ rateLimitMap = EmptyFn
    /\ calls = <<>>
    /\ env \in ReqEnvs
    /\ inv = [s \in {1} |-> Idle]

ArriveReq ==
    \E s \in DOMAIN inv, req \in ReqRequests :
        Len(calls) < ReqMaxCalls /\ Start(s, req)

NextReq == ArriveReq \/ ReadSettles \/ ProviderSettles \/ Return

SpecReq == InitReq /\ [][NextReq]_vars

(***************************************************************************)
(* What the claims speak of                                                *)
(***************************************************************************)
\* the order the spec gives for the checks
CheckOrder ==
    <<"rate-limit", "content-type", "content-length", "body-size", "json",
      "messages", "message-count", "message-length", "model">>

IsPrefix(a, b) == Len(a) <= Len(b) /\ \A k \in DOMAIN a : a[k] = b[k]

WellFormedMessage(m) ==
    /\ m.t = "object"
    /\ {"role", "content"} \subseteq DOMAIN m.v
    /\ m.v["role"].t = "string"
    /\ m.v["role"].v \in {<<"system">>, <<"user">>, <<"assistant">>}
    /\ m.v["content"].t = "string"

\* whether the request of invocation i breaks the k-th check: read off the
\* request and the resolved configuration, not off the handler
Violates(k, i) ==
    LET headers == i.req.headers
        json == i.req.body.json
        cfg == Resolved[env]
        messages == Get(json, "messages")
        model == Get(json, "model")
    IN CASE k = 1 -> i.limited
         [] k = 2 -> ~("content-type" \in DOMAIN headers
                       /\ \E n \in DOMAIN headers["content-type"] :
                              headers["content-type"][n] = "application/json")
         [] k = 3 -> /\ "content-length" \in DOMAIN headers
                     /\ ParseInt10(headers["content-length"]).t = "number"
                     /\ ParseInt10(headers["content-length"]).v > cfg.MAX_BODY_BYTES
         [] k = 4 -> i.req.body.bytes > cfg.MAX_BODY_BYTES
         [] k = 5 -> json.t = "invalid"
         [] k = 6 -> /\ json.t # "invalid"
                     /\ ~(/\ messages.t = "array"
                          /\ \A n \in DOMAIN messages.v : WellFormedMessage(messages.v[n]))
         [] k = 7 -> messages.t = "array" /\ Len(messages.v) > cfg.MAX_MESSAGES
         [] k = 8 -> /\ messages.t = "array"
                     /\ \E n \in DOMAIN messages.v :
                            /\ Get(messages.v[n], "content").t = "string"
                            /\ Len(Get(messages.v[n], "content").v) > cfg.MAX_MESSAGE_LENGTH
         [] k = 9 -> /\ model.t = "string"
                     /\ Trim(model.v) # <<>>
                     /\ \A n \in DOMAIN cfg.MODEL_ALLOWLIST :
                            cfg.MODEL_ALLOWLIST[n] # Trim(model.v)

Failing(i) == {k \in DOMAIN CheckOrder : Violates(k, i)}

FirstFailing(i) == CHOOSE k \in Failing(i) : \A j \in Failing(i) : k <= j

StatusOfCheck == <<429, 415, 413, 413, 400, 400, 400, 400, 400>>

Started == {s \in DOMAIN inv : inv[s].pc # "idle"}

\* the invocations that have returned a response
Returned == {s \in DOMAIN inv : inv[s].pc = "done"}

\* the invocations whose response the handler built itself from a check
Rejected == {s \in Returned : inv[s].thrown = None /\ inv[s].outcome = None}

C2_ProviderOnlyAfterChecks ==
    \A s \in Started :
        LET i == inv[s]
        IN /\ Len(i.aiCalls) <= 1
           /\ Len(i.aiCalls) = 1 =>
                  /\ Failing(i) = {}
                  /\ i.checks = CheckOrder
           /\ s \in Rejected =>
                  /\ i.resp.status \in {429, 415, 413, 400}
                  /\ i.aiCalls = <<>>
           /\ (i.outcome # None /\ i.outcome.t = "reject") =>
                  /\ i.pc = "done"
                  /\ Len(i.aiCalls) = 1

\* the provider has failed and the invocation has returned
C2_Witness ==
    \E s \in Returned :
        /\ inv[s].outcome # None
        /\ inv[s].outcome.t = "reject"
        /\ Len(inv[s].aiCalls) = 1

(***************************************************************************)
(* The rate limiter's claims, read off the history of its calls            *)
(***************************************************************************)
Identifiers == {calls[k].identifier : k \in DOMAIN calls}

\* the calls made for one identifier, in order
CallsOf(id) == SelectSeq(calls, LAMBDA c : c.identifier = id)

\* every call of cs was made with the same maxRequests and windowMs
Uniform(cs) ==
    \A j, k \in DOMAIN cs :
        cs[j].maxRequests = cs[k].maxRequests /\ cs[j].windowMs = cs[k].windowMs

\* the time at which the window of the k-th call of cs opened: the first
\* call opens one, and so does every call made after the window has elapsed
RECURSIVE WindowOpen(_, _)
WindowOpen(cs, k) ==
    IF k = 1 THEN cs[1].time
    ELSE LET open == WindowOpen(cs, k - 1)
         IN IF cs[k].time > open + cs[k].windowMs THEN cs[k].time ELSE open

\* the k-th call of cs is the RankInWindow-th call of its window
RankInWindow(cs, k) ==
    Cardinality({j \in 1..k : WindowOpen(cs, j) = WindowOpen(cs, k)})

\* C3: for one identifier with fixed maxRequests = N and windowMs, from no
\* record: the first N calls of a window are not limited, every further call
\* of that window is limited, and the first call after the window has
\* elapsed is not limited and opens a new window with count = 1.
C3_WindowCounts ==
    \A id \in Identifiers :
        LET cs == CallsOf(id)
        IN Uniform(cs) =>
               \A k \in DOMAIN cs :
                   /\ cs[k].limited = (RankInWindow(cs, k) > cs[k].maxRequests)
                   /\ RankInWindow(cs, k) = 1 =>
                          cs[k].after = [count |-> 1,
                                         resetTime |-> cs[k].time + cs[k].windowMs]

\* an identifier with N = 2 was let through twice, then limited, then let
\* through again once the window had elapsed
C3_Witness ==
    \E id \in Identifiers :
        LET cs == CallsOf(id)
        IN /\ Len(cs) = 4
           /\ Uniform(cs)
           /\ cs[1].maxRequests = 2
           /\ <<cs[1].limited, cs[2].limited, cs[3].limited, cs[4].limited>>
                  = <<FALSE, FALSE, TRUE, FALSE>>
           /\ cs[4].before # {}
           /\ cs[4].after.count = 1

\* C5: a call for one identifier changes no other identifier's record (each
\* call finds the record that the previous call for the same identifier
\* left, and the table holds what the last call for each identifier left),
\* and the value returned and the record left depend only on the record
\* found, the time and the call's parameters.
C5_IdentifiersIndependent ==
    /\ DOMAIN rateLimitMap = Identifiers
    /\ \A id \in Identifiers :
           LET cs == CallsOf(id)
           IN /\ cs[1].before = {}
              /\ \A k \in 2..Len(cs) : cs[k].before = {cs[k - 1].after}
              /\ rateLimitMap[id] = cs[Len(cs)].after
    /\ \A k \in DOMAIN calls : \A j \in 1..(k - 1) :
           (/\ calls[j].before = calls[k].before
            /\ calls[j].time = calls[k].time
            /\ calls[j].maxRequests = calls[k].maxRequests
            /\ calls[j].windowMs = calls[k].windowMs)
           => (calls[j].limited = calls[k].limited /\ calls[j].after = calls[k].after)

\* calls for two identifiers interleave, and one is limited while the other
\* is let through at the same time with the same parameters
C5_Witness ==
    \E j, k \in DOMAIN calls :
        /\ j + 1 < k
        /\ calls[j].identifier = calls[k].identifier
        /\ calls[j + 1].identifier # calls[j].identifier
        /\ calls[k - 1].identifier # calls[j].identifier
        /\ calls[k - 1].time = calls[k].time
        /\ calls[k - 1].maxRequests = calls[k].maxRequests
        /\ calls[k - 1].windowMs = calls[k].windowMs
        /\ calls[k].limited
        /\ ~calls[k - 1].limited

\* C6: for one identifier with fixed maxRequests = N and windowMs, no more
\* than N calls are let through in any time interval of length windowMs
\* (stated for the intervals [t, t + windowMs) that start at a call).
C6_SlidingWindow ==
    \A id \in Identifiers :
        LET cs == CallsOf(id)
        IN Uniform(cs) =>
               \A k \in DOMAIN cs :
                   Cardinality({j \in DOMAIN cs :
                                   /\ ~cs[j].limited
                                   /\ cs[k].time <= cs[j].time
                                   /\ cs[j].time < cs[k].time + cs[k].windowMs})
                       <= cs[k].maxRequests

\* the calls of cs that were let through in the window of its k-th call
AdmittedInWindowOf(cs, k) ==
    {j \in DOMAIN cs : ~cs[j].limited /\ WindowOpen(cs, j) = WindowOpen(cs, k)}

\* C4: with invocations of one client interleaved at their awaits, no
\* update is lost: the record's count is the number of invocations let
\* through in the current window, and no window lets more than maxRequests
\* invocations through.
C4_NoLostUpdate ==
    \A id \in Identifiers :
        LET cs == CallsOf(id)
        IN /\ id \in DOMAIN rateLimitMap
           /\ rateLimitMap[id].count = Cardinality(AdmittedInWindowOf(cs, Len(cs)))
           /\ \A k \in DOMAIN cs :
                  Cardinality(AdmittedInWindowOf(cs, k)) <= cs[k].maxRequests

\* two invocations of one client are suspended at the same time and both
\* were let through in one window
C4_Witness ==
    /\ \A s \in DOMAIN inv : inv[s].pc \in {"reading", "running"} /\ ~inv[s].limited
    /\ \E s, u \in DOMAIN inv : s # u /\ ClientIp(inv[s].req) = ClientIp(inv[u].req)
    /\ \E id \in DOMAIN rateLimitMap : rateLimitMap[id].count = 2

(***************************************************************************)
(* The responses' claims                                                   *)
(***************************************************************************)
\* the invocations that returned what the provider resolved with
PassedThrough ==
    {s \in Returned : inv[s].outcome # None /\ inv[s].outcome.t = "response"}

\* the invocations that returned a failure response of the handler's own
Failed == Returned \ PassedThrough

\* C7: when the provider call rejects, or anything else throws after the
\* rate-limit check, the invocation returns status 500 with the body
\* {"error":"Failed to process request"}, whatever was thrown, and what was
\* thrown appears nowhere in the response.
C7_GenericFailure ==
    \A s \in Started :
        LET i == inv[s]
        IN i.thrown # None =>
               /\ i.pc = "done"
               /\ i.resp.status = 500
               /\ i.resp.body = [t |-> "json",
                                 v |-> [error |-> "Failed to process request"]]
               /\ \A h \in DOMAIN i.resp.headers : i.resp.headers[h] # i.thrown.error

\* the provider call has rejected and the invocation has answered 500
C7_Witness ==
    \E s \in Returned :
        /\ inv[s].thrown # None
        /\ inv[s].thrown.error = "AI service error"
        /\ inv[s].aiCalls # <<>>
        /\ inv[s].resp.status = 500

\* C8: every response an invocation returns carries the eight base security
\* headers with their values and Cache-Control: no-store.
C8_SecurityHeaders ==
    /\ Cardinality(DOMAIN BASE_SECURITY_HEADERS) = 8
    /\ \A s \in Returned :
           LET headers == inv[s].resp.headers
           IN /\ \A h \in DOMAIN BASE_SECURITY_HEADERS :
                     h \in DOMAIN headers /\ headers[h] = BASE_SECURITY_HEADERS[h]
              /\ "cache-control" \in DOMAIN headers
              /\ headers["cache-control"] = "no-store"

\* the provider's response came with its own Cache-Control and
\* X-Frame-Options and has been returned
C8_Witness ==
    \E s \in PassedThrough :
        LET raw == inv[s].outcome.response.headers
        IN /\ "cache-control" \in DOMAIN raw
           /\ raw["cache-control"] # "no-store"
           /\ "x-frame-options" \in DOMAIN raw
           /\ raw["x-frame-options"] # "DENY"

\* the status and the message of each check's failure response, in the order
\* of CheckOrder
FailureOfCheck(cfg) ==
    <<<<429, "Rate limit exceeded. Please try again later.">>,
      <<415, "Content-Type must be application/json">>,
      <<413, "Request body too large: maximum " \o ToString(cfg.MAX_BODY_BYTES)
                 \o " bytes allowed">>,
      <<413, "Request body too large: maximum " \o ToString(cfg.MAX_BODY_BYTES)
                 \o " bytes allowed">>,
      <<400, "Invalid JSON body">>,
      <<400, "Invalid request: messages must be an array of chat messages">>,
      <<400, "Too many messages: maximum " \o ToString(cfg.MAX_MESSAGES)
                 \o " messages allowed">>,
      <<400, "Message too long: maximum " \o ToString(cfg.MAX_MESSAGE_LENGTH)
                 \o " characters allowed">>,
      <<400, "Invalid model selection. Please choose a model from the allowed list.">>>>

\* C9: every failure response has a status among 400, 413, 415, 429 and 500
\* and a JSON body with the one key "error"; the status and the message are
\* those of the check that failed, or 500 "Failed to process request" when
\* something was thrown.
C9_FailureShape ==
    \A s \in Failed :
        LET i == inv[s]
            expected == IF i.thrown # None
                        THEN <<500, "Failed to process request">>
                        ELSE FailureOfCheck(Resolved[env])[Len(i.checks)]
        IN /\ i.resp.status \in {400, 413, 415, 429, 500}
           /\ i.resp.body.t = "json"
           /\ DOMAIN i.resp.body.v = {"error"}
           /\ <<i.resp.status, i.resp.body.v.error>> = expected
           /\ i.resp.headers["content-type"] = "application/json"

\* a request has been refused for its model, the last of the checks
C9_Witness ==
    \E s \in Failed :
        /\ inv[s].checks = CheckOrder
        /\ inv[s].resp.status = 400
        /\ inv[s].resp.body.v.error =
               "Invalid model selection. Please choose a model from the allowed list."

\* the least number of whole seconds that covers w milliseconds
WholeSecondsUp(w) ==
    CHOOSE n \in 1..(w \div 1000 + 1) : n * 1000 >= w /\ (n - 1) * 1000 < w

\* C10: a 429 carries Retry-After, the configured window in whole seconds
\* rounded up (60000 -> 60, 1 -> 1, 1001 -> 2); no other response of the
\* handler's own has a Retry-After, and a provider's response keeps its own.
C10_RetryAfter ==
    \A s \in Returned :
        LET i == inv[s]
            headers == i.resp.headers
            windowMs == Resolved[env].RATE_LIMIT_WINDOW_MS
        IN /\ i.resp.status = 429 =>
                  /\ "retry-after" \in DOMAIN headers
                  /\ headers["retry-after"] = ToString(WholeSecondsUp(windowMs))
                  /\ windowMs = 60000 => headers["retry-after"] = "60"
                  /\ windowMs = 1 => headers["retry-after"] = "1"
                  /\ windowMs = 1001 => headers["retry-after"] = "2"
           /\ (s \in Failed /\ i.resp.status # 429) => "retry-after" \notin DOMAIN headers
           /\ s \in PassedThrough =>
                  LET raw == i.outcome.response.headers
                  IN /\ ("retry-after" \in DOMAIN headers) = ("retry-after" \in DOMAIN raw)
                     /\ "retry-after" \in DOMAIN raw =>
                            headers["retry-after"] = raw["retry-after"]

\* a client has been limited under a window of 1001 ms and told to retry
\* after 2 seconds
C10_Witness ==
    \E s \in Returned :
        /\ inv[s].limited
        /\ Resolved[env].RATE_LIMIT_WINDOW_MS = 1001
        /\ inv[s].resp.status = 429
        /\ inv[s].resp.headers["retry-after"] = "2"

(***************************************************************************)
(* The validator's claims                                                  *)
(***************************************************************************)
\* the messages field of the request of invocation i
MessagesOf(i) == Get(i.req.body.json, "messages")

\* the request of invocation i carries a sequence of chat messages
HasMessageSequence(i) ==
    /\ MessagesOf(i).t = "array"
    /\ \A n \in DOMAIN MessagesOf(i).v : WellFormedMessage(MessagesOf(i).v[n])

\* the request of invocation i passes every check that comes before the
\* checks of its messages
ReachesValidation(i) == \A k \in 1..5 : ~Violates(k, i)

\* role and content of a message of the caller
RoleAndContent(m) == [role |-> m.v["role"].v, content |-> m.v["content"].v]

SuppliesSystem(i) ==
    \E n \in DOMAIN MessagesOf(i).v : MessagesOf(i).v[n].v["role"].v = <<"system">>

\* the invocations that have called the provider
Forwarded == {s \in Started : inv[s].aiCalls # <<>>}

\* C11: the composed system prompt is put in front of the forwarded messages
\* only if no message of the caller, at any place, has role system; if one
\* has, the forwarded sequence is the caller's, message by message, with
\* nothing added.  Either way a system message is forwarded.
C11_SystemPromptOnlyIfMissing ==
    \A s \in Forwarded :
        LET i == inv[s]
            theirs == MessagesOf(i).v
            sent == i.aiCalls[1].messages
            cfg == Resolved[env]
        IN /\ SuppliesSystem(i) =>
                  /\ Len(sent) = Len(theirs)
                  /\ \A n \in DOMAIN theirs : sent[n] = RoleAndContent(theirs[n])
           /\ ~SuppliesSystem(i) =>
                  /\ Len(sent) = Len(theirs) + 1
                  /\ sent[1] =
                         [role |-> <<"system">>,
                          content |-> buildContextualSystemPrompt(cfg.SYSTEM_PROMPT,
                              normalizeClientContext(Get(i.req.body.json, "clientContext")))]
                  /\ \A n \in DOMAIN theirs : sent[n + 1] = RoleAndContent(theirs[n])
           /\ \E n \in DOMAIN sent : sent[n].role = <<"system">>

\* a caller sent a client context and a system message that is not the
\* first message, and the provider was called with the caller's two messages
C11_Witness ==
    \E s \in Forwarded :
        /\ "clientContext" \in DOMAIN inv[s].req.body.json.v
        /\ MessagesOf(inv[s]).v = <<mOk, mSys>>
        /\ Len(inv[s].aiCalls[1].messages) = 2

\* the position of invocation i is past the reading of the body, and the
\* reading did not throw
BodyWasRead(i) ==
    \/ i.pc = "running"
    \/ i.pc = "done" /\ "body-size" \in {i.checks[n] : n \in DOMAIN i.checks}

\* C12: a sequence of chat messages within the count and length limits
\* passes validation (the provider is called), and the forwarded sequence,
\* apart from a system message put in front of it, has the caller's length
\* and order and only role and content of each message.
C12_NormalizedSequence ==
    \A s \in Started :
        LET i == inv[s]
            cfg == Resolved[env]
            theirs == MessagesOf(i).v
            sent == i.aiCalls[1].messages
            kept == IF Len(sent) > Len(theirs) THEN Tail(sent) ELSE sent
        IN (/\ ReachesValidation(i)
            /\ HasMessageSequence(i)
            /\ Len(theirs) <= cfg.MAX_MESSAGES
            /\ \A n \in DOMAIN theirs : Len(theirs[n].v["content"].v) <= cfg.MAX_MESSAGE_LENGTH
            /\ ~Violates(9, i)
            /\ BodyWasRead(i))
           => /\ Len(i.aiCalls) = 1
              /\ s \notin Rejected
              /\ Len(kept) = Len(theirs)
              /\ \A n \in DOMAIN theirs :
                     /\ DOMAIN kept[n] = {"role", "content"}
                     /\ kept[n].role = theirs[n].v["role"].v
                     /\ kept[n].content = theirs[n].v["content"].v

\* a message with two extra fields and a message of exactly the maximum
\* length have been forwarded, in the caller's order
C12_Witness ==
    \E s \in Forwarded :
        /\ MessagesOf(inv[s]).v = <<mExtra, mMax>>
        /\ Len(inv[s].aiCalls[1].messages) = 3
        /\ inv[s].aiCalls[1].messages[3].content = <<"h", "e", "y">>

\* the text of the response of invocation i, when it is a JSON error
ErrorOf(i) == i.resp.body.v.error

\* the invocations that returned a JSON error of the handler's own making
Refused == {s \in Failed : inv[s].thrown = None}

\* a content of the messages of invocation i is longer than the maximum
HasLongContent(i) ==
    \E n \in DOMAIN MessagesOf(i).v :
        Len(MessagesOf(i).v[n].v["content"].v) > Resolved[env].MAX_MESSAGE_LENGTH

MessageTooLong ==
    "Message too long: maximum " \o ToString(Resolved[env].MAX_MESSAGE_LENGTH)
        \o " characters allowed"

\* C13 as the spec states it: any sequence of chat messages with a content
\* longer than the maximum is answered 400 "Message too long: maximum
\* <MAX_MESSAGE_LENGTH> characters allowed".
C13_TooLongAlwaysNamed ==
    \A s \in Returned :
        LET i == inv[s]
        IN (ReachesValidation(i) /\ BodyWasRead(i) /\ HasMessageSequence(i)
            /\ HasLongContent(i))
           => (i.resp.status = 400 /\ ErrorOf(i) = MessageTooLong)

\* C13: a sequence of chat messages of no more than MAX_MESSAGES messages
\* with a content longer than MAX_MESSAGE_LENGTH, at whatever place, is
\* answered 400 "Message too long: maximum <MAX_MESSAGE_LENGTH> characters
\* allowed" and the provider is not called; a sequence whose contents are
\* all of the maximum length or shorter is never answered so.
C13_TooLongWithinCount ==
    \A s \in Started :
        LET i == inv[s]
        IN /\ (ReachesValidation(i) /\ BodyWasRead(i) /\ HasMessageSequence(i)
               /\ Len(MessagesOf(i).v) <= Resolved[env].MAX_MESSAGES
               /\ HasLongContent(i))
              => /\ s \in Refused
                 /\ i.resp.status = 400
                 /\ ErrorOf(i) = MessageTooLong
                 /\ i.aiCalls = <<>>
           /\ (s \in Refused /\ HasMessageSequence(i) /\ ~HasLongContent(i))
              => ErrorOf(i) # MessageTooLong

\* a sequence whose second message is too long and whose first is of
\* exactly the maximum length has been refused
C13_Witness ==
    \E s \in Refused :
        /\ HasMessageSequence(inv[s])
        /\ MessagesOf(inv[s]).v = <<mMax, mLong>>
        /\ inv[s].resp.status = 400
        /\ ErrorOf(inv[s]) = "Message too long: maximum 3 characters allowed"

TooManyMessages ==
    "Too many messages: maximum " \o ToString(Resolved[env].MAX_MESSAGES)
        \o " messages allowed"

\* C14: a sequence of more than MAX_MESSAGES chat messages is answered 400
\* "Too many messages: maximum <MAX_MESSAGES> messages allowed", whatever
\* the messages' lengths, and the provider is not called; a sequence of
\* MAX_MESSAGES messages or fewer is never answered so.
C14_TooManyNamed ==
    \A s \in Started :
        LET i == inv[s]
        IN /\ (ReachesValidation(i) /\ BodyWasRead(i) /\ HasMessageSequence(i)
               /\ Len(MessagesOf(i).v) > Resolved[env].MAX_MESSAGES)
              => /\ s \in Refused
                 /\ i.resp.status = 400
                 /\ ErrorOf(i) = TooManyMessages
                 /\ i.aiCalls = <<>>
           /\ (s \in Refused /\ HasMessageSequence(i)
               /\ Len(MessagesOf(i).v) <= Resolved[env].MAX_MESSAGES)
              => ErrorOf(i) # TooManyMessages

\* three chat messages, none too long, have been refused for their number,
\* and so have three of which one is too long
C14_Witness ==
    \E s \in Refused :
        /\ HasMessageSequence(inv[s])
        /\ MessagesOf(inv[s]).v \in {<<mOk, mSys, mMax>>, <<mOk, mLong, mOk>>}
        /\ ErrorOf(inv[s]) = "Too many messages: maximum 2 messages allowed"

InvalidMessages == "Invalid request: messages must be an array of chat messages"

\* C15: a request that reaches the check of its messages is answered 400
\* "Invalid request: messages must be an array of chat messages" exactly
\* when messages is absent, is not an array, or has an element that is not
\* an object with a role among system, user, assistant and a string content;
\* whatever is at fault, the answer is the same.
C15_MessagesShape ==
    \A s \in Started :
        LET i == inv[s]
        IN /\ (ReachesValidation(i) /\ BodyWasRead(i)) =>
                  (~HasMessageSequence(i)) =
                      (s \in Refused /\ i.resp.status = 400 /\ ErrorOf(i) = InvalidMessages)
           /\ (s \in Refused /\ ErrorOf(i) = InvalidMessages) =>
                  /\ ReachesValidation(i)
                  /\ i.resp.status = 400
                  /\ i.aiCalls = <<>>

\* a sequence whose third element has a content that is not a string has
\* been refused
C15_Witness ==
    \E s \in Refused :
        /\ MessagesOf(inv[s]).t = "array"
        /\ Len(MessagesOf(inv[s]).v) = 3
        /\ MessagesOf(inv[s]).v[3] = JObj([role |-> JStr(<<"user">>), content |-> JNull])
        /\ ErrorOf(inv[s]) = InvalidMessages

\* the request of invocation i names a model: a string that is not blank
NamesModel(i) ==
    LET model == Get(i.req.body.json, "model")
    IN model.t = "string" /\ Trim(model.v) # <<>>

\* the model the request of invocation i names, trimmed
NamedModel(i) == Trim(Get(i.req.body.json, "model").v)

\* the request of invocation i passes every check before that of its model
ReachesModelCheck(i) ==
    ReachesValidation(i) /\ BodyWasRead(i) /\ HasMessageSequence(i)
        /\ ~Violates(7, i) /\ ~Violates(8, i)

Allowed(model) ==
    \E n \in DOMAIN Resolved[env].MODEL_ALLOWLIST : Resolved[env].MODEL_ALLOWLIST[n] = model

InvalidModel == "Invalid model selection. Please choose a model from the allowed list."

\* C16: a request, valid otherwise, that names a model of the resolved
\* allowlist calls the provider with exactly that model id, trimmed; one
\* that names a model not in the allowlist is answered 400 "Invalid model
\* selection..." and the provider is not called.
C16_ModelSelection ==
    \A s \in Started :
        LET i == inv[s]
        IN (ReachesModelCheck(i) /\ NamesModel(i)) =>
               IF Allowed(NamedModel(i))
               THEN /\ s \notin Refused
                    /\ Len(i.aiCalls) = 1
                    /\ i.aiCalls[1].model = NamedModel(i)
               ELSE /\ s \in Refused
                    /\ i.resp.status = 400
                    /\ ErrorOf(i) = InvalidModel
                    /\ i.aiCalls = <<>>

\* a model of the allowlist sent with white space around it has been passed
\* to the provider without it
C16_Witness ==
    \E s \in Forwarded :
        /\ Get(inv[s].req.body.json, "model") = JStr(<<" ", "m2", " ">>)
        /\ inv[s].aiCalls[1].model = <<"m2">>

\* C17: a request, valid otherwise, whose model is absent or a blank string
\* is not refused for its model: the provider is called with the configured
\* default model (env.MODEL_ID when it is not empty, the built-in default
\* otherwise) and with max_tokens the resolved MAX_TOKENS.
C17_DefaultModel ==
    \A s \in Started :
        LET i == inv[s]
            model == Get(i.req.body.json, "model")
        IN (/\ ReachesModelCheck(i)
            /\ \/ model.t = "undefined"
               \/ model.t = "string" /\ Trim(model.v) = <<>>)
           => /\ s \notin Refused
              /\ Len(i.aiCalls) = 1
              /\ i.aiCalls[1].model =
                     IF "MODEL_ID" \in DOMAIN env /\ env["MODEL_ID"] # <<>>
                     THEN env["MODEL_ID"]
                     ELSE DEFAULT_MODEL_ID
              /\ i.aiCalls[1].max_tokens = Resolved[env].MAX_TOKENS
              /\ i.aiCalls[1].max_tokens =
                     IF "MAX_TOKENS" \in DOMAIN env THEN 7 ELSE DEFAULT_MAX_TOKENS

\* with MODEL_ID and MAX_TOKENS set, a request with a blank model has
\* called the provider with them
C17_Witness ==
    \E s \in Forwarded :
        /\ Get(inv[s].req.body.json, "model") = JStr(<<" ", " ">>)
        /\ inv[s].aiCalls[1].model = <<"m0">>
        /\ inv[s].aiCalls[1].max_tokens = 7

(***************************************************************************)
(* The body size's and the client identifier's claims                      *)
(***************************************************************************)
\* the number a Content-Length header of decimal digits states; -1 when the
\* header is absent or is not made of digits
DeclaredLength(i) ==
    LET headers == i.req.headers
    IN IF /\ "content-length" \in DOMAIN headers
          /\ headers["content-length"] # <<>>
          /\ \A n \in DOMAIN headers["content-length"] :
                 headers["content-length"][n] \in Digits
       THEN DigitsValue(headers["content-length"])
       ELSE -1

\* the request of invocation i gets as far as the checks of its size
ReachesSizeChecks(i) == ~i.limited /\ ~Violates(2, i)

BodyTooLargeText ==
    "Request body too large: maximum " \o ToString(Resolved[env].MAX_BODY_BYTES)
        \o " bytes allowed"

ChecksOf(i) == {i.checks[n] : n \in DOMAIN i.checks}

\* C18: a Content-Length above MAX_BODY_BYTES is answered 413 at once: the
\* body is neither read nor parsed and the provider is not called; a
\* Content-Length of exactly MAX_BODY_BYTES is not refused by this check.
C18_DeclaredLength ==
    \A s \in Started :
        LET i == inv[s]
        IN ReachesSizeChecks(i) =>
               IF DeclaredLength(i) > Resolved[env].MAX_BODY_BYTES
               THEN /\ s \in Refused
                    /\ i.resp.status = 413
                    /\ ErrorOf(i) = BodyTooLargeText
                    /\ i.checks = <<"rate-limit", "content-type", "content-length">>
                    /\ i.aiCalls = <<>>
               ELSE ~(s \in Refused /\ i.checks[Len(i.checks)] = "content-length")

\* a request that declares 201 bytes and has 150 has been refused unread
C18_Witness ==
    \E s \in Refused :
        /\ DeclaredLength(inv[s]) = 201
        /\ inv[s].req.body.bytes = 150
        /\ inv[s].resp.status = 413
        /\ "body-size" \notin ChecksOf(inv[s])

\* C19: a body of more than MAX_BODY_BYTES bytes is answered 413, whether
\* Content-Length is absent, smaller than the body or not a number, and is
\* never parsed; a body of exactly MAX_BODY_BYTES bytes is not refused for
\* its size.
C19_ActualLength ==
    \A s \in Started :
        LET i == inv[s]
            ceiling == Resolved[env].MAX_BODY_BYTES
        IN ReachesSizeChecks(i) =>
               /\ i.req.body.bytes > ceiling =>
                      /\ "json" \notin ChecksOf(i)
                      /\ i.aiCalls = <<>>
                      /\ i.pc \in {"reading", "done"}
                      /\ (i.pc = "done" /\ i.thrown = None) =>
                             /\ i.resp.status = 413
                             /\ ErrorOf(i) = BodyTooLargeText
               /\ (i.req.body.bytes <= ceiling /\ DeclaredLength(i) <= ceiling
                   /\ BodyWasRead(i)) =>
                      /\ "json" \in ChecksOf(i)
                      /\ i.resp # None => i.resp.status # 413

\* bodies of 201 bytes have been refused after the read: one that declared
\* 100 bytes, or none, or "abc"
C19_Witness ==
    \E s \in Refused :
        /\ inv[s].req.body.bytes = 201
        /\ DeclaredLength(inv[s]) \in {100, -1}
        /\ inv[s].checks = <<"rate-limit", "content-type", "content-length", "body-size">>
        /\ inv[s].resp.status = 413

\* the first comma-separated entry of a header value, without the blanks
\* around it
FirstEntry(value) ==
    LET commas == {n \in DOMAIN value : value[n] = ","}
        end == IF commas = {} THEN Len(value)
               ELSE (CHOOSE n \in commas : \A m \in commas : n <= m) - 1
        inside == {n \in 1..end : value[n] # " "}
    IN IF inside = {} THEN <<>>
       ELSE SubSeq(value,
                CHOOSE n \in inside : \A m \in inside : n <= m,
                CHOOSE n \in inside : \A m \in inside : n >= m)

\* the identifier the spec gives a request
IdentifierOf(req) ==
    LET headers == req.headers
    IN IF "cf-connecting-ip" \in DOMAIN headers /\ headers["cf-connecting-ip"] # <<>>
       THEN headers["cf-connecting-ip"]
       ELSE IF "x-forwarded-for" \in DOMAIN headers
               /\ FirstEntry(headers["x-forwarded-for"]) # <<>>
       THEN FirstEntry(headers["x-forwarded-for"])
       ELSE <<"unknown">>

\* C20: the request is counted under CF-Connecting-IP when that is present
\* and not empty, else under the trimmed first entry of X-Forwarded-For when
\* that is not empty, else under "unknown"; the table has one record per
\* identifier, so requests with the same identifier share a counter.
C20_ClientIdentifier ==
    /\ \A s \in Started :
           /\ calls # <<>>
           /\ calls[Len(calls)].identifier = IdentifierOf(inv[s].req)
           /\ IdentifierOf(inv[s].req) \in DOMAIN rateLimitMap
    /\ DOMAIN rateLimitMap = Identifiers
    /\ \A id \in Identifiers :
           rateLimitMap[id].count =
               Cardinality({k \in DOMAIN calls :
                               calls[k].identifier = id /\ ~calls[k].limited})

\* the second of two requests came with another X-Forwarded-For than the
\* first, the same in its first entry, and was counted with it
C20_Witness ==
    \E s \in Started :
        /\ "cf-connecting-ip" \notin DOMAIN inv[s].req.headers
        /\ "x-forwarded-for" \in DOMAIN inv[s].req.headers
        /\ inv[s].req.headers["x-forwarded-for"] = <<" ", "ip-b", " ", ",", " ", "ip-d">>
        /\ Len(calls) = 2
        /\ calls[1].identifier = <<"ip-b">>
        /\ DOMAIN rateLimitMap = {<<"ip-b">>}
        /\ rateLimitMap[<<"ip-b">>].count = 2

(***************************************************************************)
(* Specification of the context functions: one input is drawn, then        *)
(* normalizeClientContext and buildContextualSystemPrompt are applied.     *)
(* inv is the evaluation in progress.                                      *)
(***************************************************************************)
MaxPad == 1     \* white space characters put before and after a field value
MaxOver == 2    \* characters by which a field value may exceed the maximum

\* what a request may send as clientContext: an object with the four fields.
\* The time zone runs over strings around the maximum length (one character
\* per symbol), with and without white space around them and inside them.
ContextInputs ==
    LET Rep(c, n) == [i \in 1..n |-> c]
        Padded(s) ==
            {Rep(" ", k) \o s \o Rep("\t", j) : k \in 0..MaxPad, j \in 0..MaxPad}
        LongValues ==
            {Rep("a", n) :
                n \in (MAX_CONTEXT_FIELD_LENGTH - 1)..(MAX_CONTEXT_FIELD_LENGTH + MaxOver)}
            \cup {Rep("a", n) \o <<" ", "b">> :
                n \in (MAX_CONTEXT_FIELD_LENGTH - 2)..(MAX_CONTEXT_FIELD_LENGTH + MaxOver - 2)}
        TimeValues ==
            {Undefined, JNull, JStr(<<"invalid-date">>),
             JStr(<<"2026-01-02T03:04:05.000Z">>),
             JStr(<<" ", "2026-01-02T03:04:05.000Z", "\n">>)}
        TimeZoneValues ==
            {Undefined, JObj(EmptyFn), JNull}
            \cup {JStr(p) :
                     p \in UNION {Padded(v) : v \in LongValues \cup {<<>>, <<"U", "T", "C">>}}}
        LocaleValues == {Undefined, JArr(<<>>), JStr(<<"e", "n", "-", "U", "S">>)}
        UserAgentValues == {Undefined, JStr(<<"\t", "M", "o", "z", " ", "5">>)}
    IN {JObj([currentTimeIso |-> t, timeZone |-> z, locale |-> l, userAgent |-> u]) :
           t \in TimeValues, z \in TimeZoneValues, l \in LocaleValues,
           u \in UserAgentValues}

\* ... or any other value
OtherInputs ==
    <<Undefined, JNull, JStr(<<"s", "t", "r">>), JNum(123), JArr(<<>>),
      JObj(EmptyFn), JObj([foo |-> JStr(<<"b", "a", "r">>)]),
      JObj([currentTimeIso |-> JNum(123)]),
      JObj([timeZone |-> JStr(<<" ", "U", "T", "C">>), locale |-> JBool(TRUE)])>>

\* the evaluation of one drawn input
Drawn(value, basePrompt) ==
    [pc |-> "drawn", value |-> value, basePrompt |-> basePrompt,
     context |-> None, again |-> None, prompt |-> None]

\* a value of type ClientContext | undefined
IsClientContext(value) ==
    \/ value.t = "undefined"
    \/ /\ value.t = "object"
       /\ \A k \in DOMAIN value.v :
              /\ k \in {"currentTimeIso", "timeZone", "locale", "userAgent"}
              /\ value.v[k].t \in {"string", "undefined"}

InitCtx ==
    /\ now = 0
    /\ rateLimitMap = EmptyFn
    /\ calls = <<>>
    /\ env = EmptyFn
    /\ \E p \in {DEFAULT_SYSTEM_PROMPT, <<"Be", " ", "brief.">>} :
           \/ \E v \in ContextInputs : inv = Drawn(v, p)
           \/ \E k \in DOMAIN OtherInputs : inv = Drawn(OtherInputs[k], p)

\* const clientContext = normalizeClientContext(body.clientContext)
Normalize ==
    /\ inv.pc = "drawn"
    /\ inv' = [inv EXCEPT !.pc = "normalized",
                          !.context = normalizeClientContext(inv.value)]
    /\ UNCHANGED <<now, rateLimitMap, calls, env>>

\* normalizeClientContext applied to its own result
Renormalize ==
    /\ inv.pc = "normalized"
    /\ inv' = [inv EXCEPT !.pc = "renormalized",
                          !.again = normalizeClientContext(inv.context)]
    /\ UNCHANGED <<now, rateLimitMap, calls, env>>

\* buildContextualSystemPrompt(SYSTEM_PROMPT, clientContext)
Compose ==
    /\ inv.pc = "normalized"
    /\ inv' = [inv EXCEPT !.pc = "composed",
                   !.prompt = buildContextualSystemPrompt(inv.basePrompt, inv.context)]
    /\ UNCHANGED <<now, rateLimitMap, calls, env>>

\* buildContextualSystemPrompt applied to a context that was not normalized
ComposeDirect ==
    /\ inv.pc = "drawn"
    /\ IsClientContext(inv.value)
    /\ inv' = [inv EXCEPT !.pc = "composed", !.context = inv.value,
                   !.prompt = buildContextualSystemPrompt(inv.basePrompt, inv.value)]
    /\ UNCHANGED <<now, rateLimitMap, calls, env>>

NextCtx == Normalize \/ Renormalize \/ Compose \/ ComposeDirect

SpecCtx == InitCtx /\ [][NextCtx]_vars

(***************************************************************************)
(* Claims about the context normalizer and the prompt composer (SpecCtx)   *)
(***************************************************************************)
ContextFields == {"currentTimeIso", "timeZone", "locale", "userAgent"}

\* the value holds a character that is not white space
HasVisible(value) ==
    value.t = "string" /\ \E k \in DOMAIN value.v : value.v[k] \notin WhiteSpace

\* the input field is a string that survives sanitization
Survives(value, key) == HasVisible(Get(value, key))

\* the input's currentTimeIso survives sanitization and parses as a date
TimeParses(value) ==
    /\ Survives(value, "currentTimeIso")
    /\ Trim(Get(value, "currentTimeIso").v) \in ParsableDates

\* C21: normalization is idempotent: when normalizeClientContext(v) is a
\* context c, normalizeClientContext(c) is a context equal to c field by
\* field; and an object whose four recognized fields are all invalid is
\* normalized to undefined.
C21_Idempotent ==
    /\ (inv.pc = "renormalized" /\ inv.context.t = "object") =>
           /\ inv.again.t = "object"
           /\ \A k \in ContextFields : Get(inv.again, k) = Get(inv.context, k)
    /\ (/\ inv.pc = "normalized"
        /\ inv.value.t = "object"
        /\ ~TimeParses(inv.value)
        /\ \A k \in ContextFields \ {"currentTimeIso"} : ~Survives(inv.value, k)) =>
           inv.context.t = "undefined"


\* C22: every field present in a context returned by normalizeClientContext
\* is a non-empty string with no leading or trailing white space and at most
\* MAX_CONTEXT_FIELD_LENGTH characters long.
C22_FieldsTrimmedAndBounded ==
    (inv.pc = "normalized" /\ inv.context.t = "object") =>
        \A k \in ContextFields :
            LET field == Get(inv.context, k)
            IN field.t # "undefined" =>
                   /\ field.t = "string"
                   /\ field.v # <<>>
                   /\ Head(field.v) \notin WhiteSpace
                   /\ field.v[Len(field.v)] \notin WhiteSpace
                   /\ Len(field.v) <= MAX_CONTEXT_FIELD_LENGTH


\* C23: a currentTimeIso that survives sanitization but does not parse as a
\* date is dropped as a field only: the other valid fields are still
\* returned, the result is undefined exactly when none of the four fields
\* survives, and a non-object input always yields undefined.
C23_TimeDroppedAlone ==
    inv.pc = "normalized" =>
        IF inv.value.t \notin {"object", "array"}
        THEN inv.context.t = "undefined"
        ELSE /\ inv.context.t = "undefined" <=>
                    /\ ~TimeParses(inv.value)
                    /\ \A k \in ContextFields \ {"currentTimeIso"} :
                           ~Survives(inv.value, k)
             /\ inv.context.t = "object" =>
                    /\ Get(inv.context, "currentTimeIso").t = "string" <=>
                           TimeParses(inv.value)
                    /\ \A k \in ContextFields \ {"currentTimeIso"} :
                           /\ Get(inv.context, k).t = "string" <=> Survives(inv.value, k)
                           /\ Survives(inv.value, k) =>
                                  IsPrefix(Get(inv.context, k).v, Trim(Get(inv.value, k).v))

C23_Witness ==
    /\ inv.pc = "normalized"
    /\ inv.value.t = "object"
    /\ Survives(inv.value, "currentTimeIso")
    /\ ~TimeParses(inv.value)
    /\ Survives(inv.value, "timeZone")
    /\ inv.context.t = "object"
    /\ Get(inv.context, "currentTimeIso").t = "undefined"
    /\ Get(inv.context, "timeZone").t = "string"

\* the field of the context holds a non-empty string
Present(context, key) ==
    /\ context.t = "object"
    /\ Get(context, key).t = "string"
    /\ Get(context, key).v # <<>>

\* "\n- <label>: <value>" when the field is present, nothing otherwise
ContextLine(context, key, label) ==
    IF Present(context, key) THEN <<"\n", "- ", label>> \o Get(context, key).v ELSE <<>>

\* C24: buildContextualSystemPrompt(P, c) is P when c is undefined or has no
\* present field; otherwise it is P, then "\n\nContext:", then one
\* "\n- <label>: <value>" line per present field in the order current time,
\* time zone, locale, user agent.  P is always a prefix of the result.
C24_PromptComposition ==
    inv.pc = "composed" =>
        /\ IsPrefix(inv.basePrompt, inv.prompt)
        /\ IF \A k \in ContextFields : ~Present(inv.context, k)
           THEN inv.prompt = inv.basePrompt
           ELSE inv.prompt =
                    inv.basePrompt \o <<"\n", "\n", "Context:">>
                    \o ContextLine(inv.context, "currentTimeIso",
                           "Current date/time (from user device): ")
                    \o ContextLine(inv.context, "timeZone", "User time zone: ")
                    \o ContextLine(inv.context, "locale", "User locale: ")
                    \o ContextLine(inv.context, "userAgent", "User agent: ")

C24_Witness ==
    /\ inv.pc = "composed"
    /\ Present(inv.context, "timeZone")
    /\ ~Present(inv.context, "locale")
    /\ Present(inv.context, "userAgent")
    /\ Len(inv.prompt) > Len(inv.basePrompt)

(***************************************************************************)
(* Specification of the configuration functions and the response shaper:   *)
(* the arguments of one call are drawn, then the function is applied.      *)
(* inv is the call: its function, its arguments and, once applied, its     *)
(* result.                                                                 *)
(***************************************************************************)
MaxLimitLen == 3    \* characters of a limit setting
MaxListLen == 4     \* symbols of an allowlist setting

\* the strings of at most n symbols of the alphabet
Strings(alphabet, n) == UNION {[1..k -> alphabet] : k \in 0..n}

\* the values of a limit setting and of the allowlist setting
LimitStrings == Strings({"0", "1", "7", "-", "+", ".", "a", " "}, MaxLimitLen)
ListStrings == Strings({"m1", "m2", "d0", ",", " "}, MaxListLen)

LimitNames ==
    {"MAX_MESSAGE_LENGTH", "MAX_MESSAGES", "MAX_TOKENS", "MAX_BODY_BYTES",
     "RATE_LIMIT_REQUESTS", "RATE_LIMIT_WINDOW_MS"}

\* environments that set one limit, to any short string
LimitEnvs ==
    {[n \in {name} |-> v] :
        name \in LimitNames, v \in {s \in LimitStrings : Len(s) < MaxLimitLen}}

\* the responses to shape: any subset of these headers
ShapeResponses ==
    LET ShapeHeaders ==
            [h \in {"content-type", "cache-control", "x-frame-options",
                    "content-security-policy", "x-request-id"} |->
                CASE h = "content-type" -> "application/json"
                  [] h = "cache-control" -> "public, max-age=60"
                  [] h = "x-frame-options" -> "SAMEORIGIN"
                  [] h = "content-security-policy" -> "default-src *"
                  [] h = "x-request-id" -> "r-1"]
    IN {[status |-> s[1], statusText |-> s[2],
         headers |-> [h \in names |-> ShapeHeaders[h]], body |-> b] :
           s \in {<<200, "">>, <<200, "OK">>, <<404, "Not Found">>},
           names \in SUBSET DOMAIN ShapeHeaders,
           b \in {Stream, [t |-> "text", v |-> "test body"]}}

ShapeOptions ==
    [isHtml : BOOLEAN, cacheControl : {"", "no-store", "public, max-age=3600"}]

Call(fn, args) == [fn |-> fn, pc |-> "drawn", args |-> args, result |-> None]

InitFn ==
    /\ now = 0
    /\ rateLimitMap = EmptyFn
    /\ calls = <<>>
    /\ env = EmptyFn
    /\ \/ \E v \in LimitStrings, fallback \in {1, DEFAULT_MAX_MESSAGES} :
              inv = Call("parsePositiveInt", <<JStr(v), fallback>>)
       \/ \E fallback \in {1, DEFAULT_MAX_MESSAGES} :
              inv = Call("parsePositiveInt", <<Undefined, fallback>>)
       \/ \E l \in ListStrings, d \in {<<"d0">>, DEFAULT_MODEL_ID} :
              inv = Call("parseModelAllowlist", <<JStr(l), d>>)
       \/ \E d \in {<<"d0">>, DEFAULT_MODEL_ID} :
              inv = Call("parseModelAllowlist", <<Undefined, d>>)
       \/ \E e \in LimitEnvs \cup {EmptyFn} : inv = Call("Config", <<e>>)
       \/ \E response \in ShapeResponses, options \in ShapeOptions :
              inv = Call("applySecurityHeaders", <<response, options>>)

\* parsePositiveInt(env.NAME, DEFAULT_NAME)
ParseLimit ==
    /\ inv.fn = "parsePositiveInt"
    /\ inv.pc = "drawn"
    /\ inv' = [inv EXCEPT !.pc = "applied",
                          !.result = parsePositiveInt(inv.args[1], inv.args[2])]
    /\ UNCHANGED <<now, rateLimitMap, calls, env>>

\* parseModelAllowlist(env.MODEL_ALLOWLIST, MODEL_ID)
ParseAllowlist ==
    /\ inv.fn = "parseModelAllowlist"
    /\ inv.pc = "drawn"
    /\ inv' = [inv EXCEPT !.pc = "applied",
                          !.result = parseModelAllowlist(inv.args[1], inv.args[2])]
    /\ UNCHANGED <<now, rateLimitMap, calls, env>>

\* the configuration block at the head of handleChatRequest
ResolveConfig ==
    /\ inv.fn = "Config"
    /\ inv.pc = "drawn"
    /\ inv' = [inv EXCEPT !.pc = "applied", !.result = Config(inv.args[1])]
    /\ UNCHANGED <<now, rateLimitMap, calls, env>>

\* applySecurityHeaders(response, options)
Shape ==
    /\ inv.fn = "applySecurityHeaders"
    /\ inv.pc = "drawn"
    /\ inv' = [inv EXCEPT !.pc = "applied",
                          !.result = applySecurityHeaders(inv.args[1], inv.args[2])]
    /\ UNCHANGED <<now, rateLimitMap, calls, env>>

NextFn == ParseLimit \/ ParseAllowlist \/ ResolveConfig \/ Shape

SpecFn == InitFn /\ [][NextFn]_vars

(***************************************************************************)
(* Claims about the configuration functions and the response shaper        *)
(* (SpecFn)                                                                *)
(***************************************************************************)
Applied(fn) == inv.fn = fn /\ inv.pc = "applied"

AllDigits(d) == \A k \in DOMAIN d : d[k] \in Digits

\* the string without its sign, and the sign
Unsigned(t) == IF t # <<>> /\ t[1] \in {"+", "-"} THEN Tail(t) ELSE t
SignOf(t) == IF t # <<>> /\ t[1] = "-" THEN -1 ELSE 1

\* a decimal numeral: an optional sign, digits, and an optional fraction
IsNumeral(t) ==
    LET b == Unsigned(t)
    IN \E k \in 0..Len(b) :
           /\ AllDigits(SubSeq(b, 1, k))
           /\ \/ k = Len(b)
              \/ b[k + 1] = "." /\ AllDigits(SubSeq(b, k + 2, Len(b)))
           /\ k > 0 \/ Len(b) >= 2

\* the number of digits the unsigned string begins with
LeadingDigits(t) ==
    LET b == Unsigned(t)
    IN CHOOSE k \in 0..Len(b) :
           /\ AllDigits(SubSeq(b, 1, k))
           /\ k = Len(b) \/ b[k + 1] \notin Digits

\* the integer the string begins with (0 when it begins with none)
LeadingInteger(t) == SignOf(t) * DigitsValue(SubSeq(Unsigned(t), 1, LeadingDigits(t)))

\* C25 as the spec states it: the fallback whenever the input is absent,
\* empty, non-numeric, zero or negative; otherwise the integer value of the
\* trimmed input, a fraction being truncated.
C25_FallbackUnlessNumeric ==
    Applied("parsePositiveInt") =>
        LET value == inv.args[1]
            t == IF value.t = "string" THEN Trim(value.v) ELSE <<>>
        IN inv.result =
               IF value.t # "string" \/ ~IsNumeral(t) \/ LeadingInteger(t) <= 0
               THEN inv.args[2]
               ELSE LeadingInteger(t)

\* C25, amended: parsePositiveInt returns the fallback when the input is
\* absent, empty, does not begin (after white space and an optional sign)
\* with a decimal digit, or begins with a zero or negative integer; otherwise
\* it returns the value of the leading run of digits, whatever follows it.
\* With a positive fallback the result is a positive integer, and every
\* resolved limit is at least 1.
C25_LeadingInteger ==
    /\ Applied("parsePositiveInt") =>
           LET value == inv.args[1]
               t == IF value.t = "string" THEN Trim(value.v) ELSE <<>>
           IN /\ inv.result =
                     IF LeadingDigits(t) = 0 \/ LeadingInteger(t) <= 0
                     THEN inv.args[2]
                     ELSE LeadingInteger(t)
              /\ inv.result \in Nat /\ inv.result >= 1
    /\ Applied("Config") =>
           \A name \in LimitNames : inv.result[name] \in Nat /\ inv.result[name] >= 1

C25_Witness ==
    /\ Applied("parsePositiveInt")
    /\ inv.args[1].t = "string"
    /\ inv.args[1].v = <<" ", "7", ".">>
    /\ inv.args[2] = 1
    /\ inv.result = 7


\* the comma-free stretches s[i..j] that a comma or an end bounds on each side
Segments(s) ==
    {p \in (1..Len(s)) \X (1..Len(s)) :
        /\ p[1] <= p[2]
        /\ \A k \in p[1]..p[2] : s[k] # ","
        /\ p[1] = 1 \/ s[p[1] - 1] = ","
        /\ p[2] = Len(s) \/ s[p[2] + 1] = ","}

\* the entry of a segment, and where an entry is first seen
EntryAt(s, p) == Trim(SubSeq(s, p[1], p[2]))
Entries(s) == {EntryAt(s, p) : p \in Segments(s)} \ {<<>>}
FirstSeen(s, e) ==
    CHOOSE i \in 1..Len(s) :
        /\ \E p \in Segments(s) : p[1] = i /\ EntryAt(s, p) = e
        /\ \A p \in Segments(s) : EntryAt(s, p) = e => i <= p[1]

\* C26: parseModelAllowlist(list, default) has no duplicates and no empty
\* entries and contains the default model; its entries are the trimmed
\* entries of the list in first-seen order, the default being prepended when
\* it is missing and left in its place when it occurs in the list; an empty
\* or absent list yields exactly <<default>>.
C26_Allowlist ==
    Applied("parseModelAllowlist") =>
        LET list == IF inv.args[1].t = "string" THEN inv.args[1].v ELSE <<>>
            default == inv.args[2]
            r == inv.result
            missing == default \notin Entries(list)
            listed == IF missing THEN Tail(r) ELSE r
        IN /\ \A a, b \in DOMAIN r : a # b => r[a] # r[b]
           /\ \A a \in DOMAIN r : r[a] # <<>>
           /\ \E a \in DOMAIN r : r[a] = default
           /\ missing => r[1] = default
           /\ {listed[a] : a \in DOMAIN listed} = Entries(list)
           /\ \A a \in DOMAIN listed : listed[a] = Trim(listed[a])
           /\ \A a, b \in DOMAIN listed :
                  a < b => FirstSeen(list, listed[a]) < FirstSeen(list, listed[b])
           /\ list = <<>> => r = <<default>>

C26_Witness ==
    /\ Applied("parseModelAllowlist")
    /\ inv.args[1].t = "string"
    /\ inv.args[1].v = <<"m1", ",", " ", "d0">>
    /\ inv.args[2] = <<"d0">>
    /\ inv.result = <<<<"m1">>, <<"d0">>>>


\* the header names applySecurityHeaders sets under the given options
SetBy(options) ==
    DOMAIN BASE_SECURITY_HEADERS
    \cup (IF options.cacheControl # "" THEN {"cache-control"} ELSE {})
    \cup (IF options.isHtml THEN {"content-security-policy"} ELSE {})

\* C27: applySecurityHeaders changes only headers: status, status text and
\* body are those of the input, every input header it does not set is kept,
\* the eight base security headers are set, Cache-Control is the given
\* cacheControl or else as it was, and Content-Security-Policy is set when
\* isHtml is set and otherwise not added.
C27_OnlyHeaders ==
    Applied("applySecurityHeaders") =>
        LET response == inv.args[1]
            options == inv.args[2]
            r == inv.result
        IN /\ r.status = response.status
           /\ r.statusText = response.statusText
           /\ r.body = response.body
           /\ DOMAIN r.headers = DOMAIN response.headers \cup SetBy(options)
           /\ \A h \in DOMAIN response.headers \ SetBy(options) :
                  r.headers[h] = response.headers[h]
           /\ Cardinality(DOMAIN BASE_SECURITY_HEADERS) = 8
           /\ \A h \in DOMAIN BASE_SECURITY_HEADERS :
                  r.headers[h] = BASE_SECURITY_HEADERS[h]
           /\ options.cacheControl # "" => r.headers["cache-control"] = options.cacheControl
           /\ options.isHtml =>
                  r.headers["content-security-policy"] = HTML_CONTENT_SECURITY_POLICY

C27_Witness ==
    /\ Applied("applySecurityHeaders")
    /\ inv.args[1].status = 404
    /\ inv.args[1].statusText = "Not Found"
    /\ DOMAIN inv.args[1].headers = {"cache-control", "x-request-id", "x-frame-options"}
    /\ inv.args[2] = [isHtml |-> FALSE, cacheControl |-> "no-store"]
    /\ inv.result.status = 404
    /\ inv.result.headers["cache-control"] = "no-store"
    /\ inv.result.headers["x-request-id"] = "r-1"
    /\ inv.result.headers["x-frame-options"] = "DENY"
    /\ "content-security-policy" \notin DOMAIN inv.result.headers

(***************************************************************************)
(* SpecFetch: the Worker's fetch handler (index.ts 41-76) in front of      *)
(* handleChatRequest.  A request has a URL path and a method; a path is a  *)
(* sequence of symbols, "/" being one.                                     *)
(***************************************************************************)
FetchMaxCalls == 2

ChatPath == <<"/", "api", "/", "chat">>

FetchRequests ==
    {[url |-> [pathname |-> p], method |-> m, headers |-> h, body |-> b] :
        p \in {<<"/">>, <<"/", "index.html">>, <<"/", "api">>, ChatPath,
               <<"/", "api", "/", "chat", "/">>, <<"/", "api", "/", "models">>},
        m \in {"GET", "POST", "OPTIONS", "DELETE"},
        h \in {("cf-connecting-ip" :> <<"ip-a">>) @@ ("content-type" :> c) :
                  c \in ContentTypes},
        b \in {[bytes |-> 150, json |-> j] :
                  j \in {JObj("messages" :> JArr(<<mOk>>)), Invalid}}}

\* what env.ASSETS.fetch does: it rejects, or it resolves with a response
AssetOutcomes ==
    {[t |-> "reject", error |-> "asset error"]}
    \cup {[t |-> "response",
           response |-> [status |-> s[1], statusText |-> s[2], headers |-> h,
                         body |-> [t |-> "text", v |-> "asset"]]] :
            s \in {<<200, "OK">>, <<404, "Not Found">>},
            h \in {EmptyFn,
                   "content-type" :> <<"text/html", ";", " ", "charset=utf-8">>,
                   "content-type" :> <<"text/css">>}}

\* new Response(text, { status })
TextResponse(status, text) ==
    [status |-> status,
     statusText |-> "",
     headers |-> [h \in {"content-type"} |-> "text/plain;charset=UTF-8"],
     body |-> [t |-> "text", v |-> text]]

\* fetch that hands every /api/chat request to handleChatRequest
FetchAnyMethod(s, req) ==
    /\ inv[s].pc = "idle"
    /\ IF req.url.pathname = <<"/">> \/ ~IsPrefix(<<"/", "api", "/">>, req.url.pathname)
       THEN /\ inv' = [inv EXCEPT ![s] = [Idle EXCEPT !.pc = "assets", !.req = req]]
            /\ UNCHANGED <<now, rateLimitMap, calls, env>>
       ELSE IF req.url.pathname = ChatPath
       THEN Start(s, req)
       ELSE /\ inv' = [inv EXCEPT ![s] =
                   [Idle EXCEPT !.pc = "done", !.req = req,
                       !.resp = applySecurityHeaders(TextResponse(404, "Not found"),
                                    NoStore)]]
            /\ UNCHANGED <<now, rateLimitMap, calls, env>>

\* fetch(request, env, ctx) runs to its first await or return
Fetch(s, req) ==
    /\ inv[s].pc = "idle"
    /\ IF req.url.pathname = <<"/">> \/ ~IsPrefix(<<"/", "api", "/">>, req.url.pathname)
       THEN /\ inv' = [inv EXCEPT ![s] = [Idle EXCEPT !.pc = "assets", !.req = req]]
            /\ UNCHANGED <<now, rateLimitMap, calls, env>>
       ELSE IF req.url.pathname = ChatPath
       THEN IF req.method = "POST"
            THEN Start(s, req)
            ELSE /\ inv' = [inv EXCEPT ![s] =
                        [Idle EXCEPT !.pc = "done", !.req = req,
                            !.resp = applySecurityHeaders(
                                         TextResponse(405, "Method not allowed"),
                                         NoStore)]]
                 /\ UNCHANGED <<now, rateLimitMap, calls, env>>
       ELSE /\ inv' = [inv EXCEPT ![s] =
                   [Idle EXCEPT !.pc = "done", !.req = req,
                       !.resp = applySecurityHeaders(TextResponse(404, "Not found"),
                                    NoStore)]]
            /\ UNCHANGED <<now, rateLimitMap, calls, env>>

\* env.ASSETS.fetch settles; fetch returns the asset with the headers, or throws
AssetsSettle(s, outcome) ==
    /\ inv[s].pc = "assets"
    /\ inv' = [inv EXCEPT ![s] =
           IF outcome.t = "reject"
           THEN [@ EXCEPT !.pc = "done", !.outcome = outcome, !.thrown = outcome]
           ELSE LET response == outcome.response
                    contentType ==
                        IF "content-type" \in DOMAIN response.headers
                        THEN response.headers["content-type"]
                        ELSE <<>>
                IN [@ EXCEPT !.pc = "done", !.outcome = outcome,
                        !.resp = applySecurityHeaders(response,
                                     [isHtml |-> Includes(contentType, "text/html"),
                                      cacheControl |-> ""])]]
    /\ UNCHANGED <<now, rateLimitMap, calls, env>>

InitFetch ==
    /\ now = 0
    /\ rateLimitMap = EmptyFn
    /\ calls = <<>>
    /\ env \in ConcEnvs
    /\ inv = [s \in {1} |-> Idle]

ArriveFetch ==
    \E s \in DOMAIN inv, req \in FetchRequests :
        Len(calls) < FetchMaxCalls /\ Fetch(s, req)

NextFetch ==
    \/ ArriveFetch
    \/ \E s \in DOMAIN inv, outcome \in AssetOutcomes : AssetsSettle(s, outcome)
    \/ ReadSettles
    \/ ProviderSettles
    \/ Return

SpecFetch == InitFetch /\ [][NextFetch]_vars

(***************************************************************************)
(* Claim about the fetch handler (SpecFetch)                               *)
(***************************************************************************)
\* the invocation of slot s begins in this step
Begins(s) == inv[s].pc = "idle" /\ inv'[s].pc # "idle"

IsChatPost(req) == req.url.pathname = ChatPath /\ req.method = "POST"

\* C28: a request to /api/chat with a method other than POST is answered 405
\* with the security headers and Cache-Control: no-store, and touches
\* neither the rate-limit table nor the provider; only POST reaches
\* handleChatRequest (its checks, the table, the provider).
C28_MethodNotAllowed ==
    [][/\ \A s \in DOMAIN inv :
              (/\ Begins(s)
               /\ inv'[s].req.url.pathname = ChatPath
               /\ inv'[s].req.method # "POST") =>
                  /\ inv'[s].pc = "done"
                  /\ inv'[s].resp.status = 405
                  /\ \A h \in DOMAIN BASE_SECURITY_HEADERS :
                         /\ h \in DOMAIN inv'[s].resp.headers
                         /\ inv'[s].resp.headers[h] = BASE_SECURITY_HEADERS[h]
                  /\ "cache-control" \in DOMAIN inv'[s].resp.headers
                  /\ inv'[s].resp.headers["cache-control"] = "no-store"
                  /\ inv'[s].checks = <<>>
                  /\ inv'[s].aiCalls = <<>>
                  /\ rateLimitMap' = rateLimitMap
                  /\ calls' = calls
       /\ \A s \in DOMAIN inv :
              (Begins(s) /\ inv'[s].checks # <<>>) => IsChatPost(inv'[s].req)
       /\ \A s \in DOMAIN inv :
              (inv[s].pc # "idle" /\ inv'[s].aiCalls # inv[s].aiCalls) =>
                  IsChatPost(inv[s].req)
       /\ (rateLimitMap' # rateLimitMap \/ calls' # calls) =>
              \E s \in DOMAIN inv : Begins(s) /\ IsChatPost(inv'[s].req)
      ]_vars

C28_Witness ==
    \E s \in DOMAIN inv :
        /\ inv[s].pc = "done"
        /\ inv[s].req.url.pathname = ChatPath
        /\ inv[s].req.method = "DELETE"
        /\ inv[s].resp.status = 405
        /\ inv[s].resp.headers["cache-control"] = "no-store"
        /\ Len(calls) = 1
        /\ DOMAIN rateLimitMap = {<<"ip-a">>}
        /\ rateLimitMap[<<"ip-a">>].count = 1

(***************************************************************************)
(* Claims about the rate-limit records (SpecRL)                            *)
(***************************************************************************)
\* this step is a checkRateLimit call; Called is its history entry
Calls == calls' # calls
Called == calls'[Len(calls')]

\* the call finds a record of its identifier whose window has not elapsed
InsideWindow ==
    /\ Called.identifier \in DOMAIN rateLimitMap
    /\ now <= rateLimitMap[Called.identifier].resetTime

\* C29: the window is fixed: a call that finds count >= maxRequests inside
\* the window reports limited and leaves the table unchanged; an admitted
\* call inside the window changes only the count of its record, by +1;
\* resetTime is written only when a record is created or replaced, so a
\* limited call never postpones it.
C29_FixedWindow ==
    [][Calls =>
          LET id == Called.identifier
          IN /\ InsideWindow =>
                    IF rateLimitMap[id].count >= Called.maxRequests
                    THEN Called.limited /\ rateLimitMap' = rateLimitMap
                    ELSE /\ ~Called.limited
                         /\ DOMAIN rateLimitMap' = DOMAIN rateLimitMap
                         /\ \A k \in DOMAIN rateLimitMap \ {id} :
                                rateLimitMap'[k] = rateLimitMap[k]
                         /\ rateLimitMap'[id].count = rateLimitMap[id].count + 1
                         /\ rateLimitMap'[id].resetTime = rateLimitMap[id].resetTime
             /\ ~InsideWindow =>
                    /\ ~Called.limited
                    /\ rateLimitMap'[id] =
                           [count |-> 1, resetTime |-> now + Called.windowMs]
             /\ Called.limited =>
                    rateLimitMap'[id].resetTime = rateLimitMap[id].resetTime
      ]_vars

\* two limited calls in a row, at different times, and the window still ends
\* where the admitted call put it
C29_Witness ==
    /\ Len(calls) = 3
    /\ \A k \in 1..3 : calls[k].identifier = <<"ip-a">>
    /\ ~calls[1].limited /\ calls[2].limited /\ calls[3].limited
    /\ calls[2].time < calls[3].time
    /\ rateLimitMap[<<"ip-a">>].resetTime = calls[1].time + calls[1].windowMs
    /\ rateLimitMap[<<"ip-a">>].count = 1

\* C30: records are never evicted: the table holds a record of every
\* identifier ever checked, and its set of identifiers only grows.
C30_NeverEvicted ==
    [][/\ DOMAIN rateLimitMap \subseteq DOMAIN rateLimitMap'
       /\ \A k \in DOMAIN calls' : calls'[k].identifier \in DOMAIN rateLimitMap'
      ]_vars

\* the record of ip-a is still in the table after its window has elapsed and
\* another identifier has been checked
C30_Witness ==
    /\ Len(calls) = 2
    /\ calls[1].identifier = <<"ip-a">>
    /\ calls[2].identifier = <<"ip-b">>
    /\ DOMAIN rateLimitMap = {<<"ip-a">>, <<"ip-b">>}
    /\ calls[2].time > rateLimitMap[<<"ip-a">>].resetTime

(***************************************************************************)
(* Claims about the quota and the handler's outcomes (Spec, SpecRL,        *)
(* SpecReq)                                                                *)
(***************************************************************************)
\* the calls of the history that were let through for the identifier in the
\* window that is open at time t
AdmittedNow(id, t) ==
    LET cs == CallsOf(id)
    IN {j \in DOMAIN cs :
           /\ ~cs[j].limited
           /\ WindowOpen(cs, j) = WindowOpen(cs, Len(cs))
           /\ t <= WindowOpen(cs, Len(cs)) + cs[Len(cs)].windowMs}

\* C31: the quota is charged before any validation: every invocation makes
\* its checkRateLimit call as it begins, an invocation that is not answered
\* 429 is counted in its identifier's window whatever it is answered later,
\* no later step of an invocation changes the table, and once maxRequests
\* invocations were counted in a window the next one is answered 429.
C31_ChargedBeforeValidation ==
    [][/\ \A s \in DOMAIN inv :
              Begins(s) =>
                  LET i == inv'[s]
                      c == calls'[Len(calls')]
                      id == ClientIp(i.req)
                  IN /\ Len(calls') = Len(calls) + 1
                     /\ c.identifier = id
                     /\ c.limited = i.limited
                     /\ c.limited <=> (i.pc = "done" /\ i.resp.status = 429)
                     /\ ~c.limited =>
                            /\ rateLimitMap'[id].count =
                                   IF id \in DOMAIN rateLimitMap
                                      /\ now <= rateLimitMap[id].resetTime
                                   THEN rateLimitMap[id].count + 1
                                   ELSE 1
                            /\ i.pc = "done" => i.resp.status \in {415, 413}
                     /\ (id \in Identifiers
                         /\ Cardinality(AdmittedNow(id, now)) >= c.maxRequests) =>
                            c.limited
       /\ (\A s \in DOMAIN inv : ~Begins(s)) =>
              rateLimitMap' = rateLimitMap /\ calls' = calls
      ]_vars

\* the second invocation of a window of one request is answered 429, though
\* its request has the wrong content type and the first was let through
C31_Witness ==
    \E s \in Returned :
        /\ Len(calls) = 2
        /\ calls[1].identifier = calls[2].identifier
        /\ ~calls[1].limited
        /\ calls[2].time <= calls[1].after.resetTime
        /\ Violates(2, inv[s])
        /\ inv[s].resp.status = 429
        /\ rateLimitMap[calls[2].identifier].count = 1


\* C32: the window boundary is inclusive: a call that finds a record and is
\* made at a time not later than the record's resetTime (the time resetTime
\* itself included) keeps that window, and is limited without a change when
\* the quota is used; the record is replaced exactly when the call is made
\* later than resetTime, so after a used quota the first call let through is
\* made at a strictly later time than resetTime.
C32_InclusiveBoundary ==
    \A k \in DOMAIN calls :
        \A r \in calls[k].before :
            LET c == calls[k]
            IN /\ c.time <= r.resetTime =>
                      /\ c.after.resetTime = r.resetTime
                      /\ r.count >= c.maxRequests => (c.limited /\ c.after = r)
               /\ c.time > r.resetTime =>
                      /\ ~c.limited
                      /\ c.after = [count |-> 1, resetTime |-> c.time + c.windowMs]
               /\ (r.count >= c.maxRequests /\ ~c.limited) => c.time > r.resetTime

\* an identifier that used its quota is limited at now = resetTime and let
\* through one millisecond later
C32_Witness ==
    \E id \in Identifiers :
        LET cs == CallsOf(id)
        IN \E k \in 2..(Len(cs) - 1) :
               \E r \in cs[k].before :
                   /\ r.count >= cs[k].maxRequests
                   /\ cs[k].time = r.resetTime
                   /\ cs[k].limited
                   /\ cs[k + 1].maxRequests = cs[k].maxRequests
                   /\ cs[k + 1].time = r.resetTime + 1
                   /\ ~cs[k + 1].limited

\* every call of cs was made with the same maxRequests
SameLimit(cs) == \A j, k \in DOMAIN cs : cs[j].maxRequests = cs[k].maxRequests

\* the call of cs that opened the window the k-th call of cs falls in: the
\* first call, or the last one made after the window before it had elapsed
RECURSIVE Opener(_, _)
Opener(cs, k) ==
    IF k = 1 THEN 1
    ELSE LET o == Opener(cs, k - 1)
         IN IF cs[k].time > cs[o].time + cs[o].windowMs THEN k ELSE o

\* C33: every record of the table has count >= 1; when all calls for its
\* identifier used the same maxRequests = N >= 1 its count is at most N; and
\* its resetTime is the time of the call that opened the current window plus
\* the windowMs of that call.
C33_RecordInvariants ==
    /\ DOMAIN rateLimitMap = Identifiers
    /\ \A id \in DOMAIN rateLimitMap :
           LET cs == CallsOf(id)
               o == Opener(cs, Len(cs))
           IN /\ rateLimitMap[id].count >= 1
              /\ (SameLimit(cs) /\ cs[1].maxRequests >= 1) =>
                     rateLimitMap[id].count <= cs[1].maxRequests
              /\ rateLimitMap[id].resetTime = cs[o].time + cs[o].windowMs

\* a record in its second window, opened by a call with another windowMs
\* than the first, with the quota of 2 used up
C33_Witness ==
    \E id \in DOMAIN rateLimitMap :
        LET cs == CallsOf(id)
            o == Opener(cs, Len(cs))
        IN /\ o > 1
           /\ o < Len(cs)
           /\ cs[o].windowMs # cs[1].windowMs
           /\ rateLimitMap[id].count = 2
           /\ rateLimitMap[id].resetTime = cs[o].time + cs[o].windowMs


(***************************************************************************)
(* SpecLive: one invocation at a time over one request for each way the    *)
(* handler can end, with the awaited operations completing: whenever       *)
(* request.arrayBuffer() or env.AI.run is pending it settles, by resolving *)
(* or by throwing (weak fairness of ReadSettles and ProviderSettles).      *)
(***************************************************************************)
LiveMaxCalls == 3

\* a request for each check it can break, and one that breaks none
LiveRequests ==
    LET Req(ct, cl, n, j) ==
            [headers |-> ("cf-connecting-ip" :> <<"ip-a">>)
                         @@ ("content-type" :> ct) @@ cl,
             body |-> [bytes |-> n, json |-> j]]
        Json == <<"application/json">>
        Messages(m) == JObj("messages" :> JArr(m))
    IN {Req(<<"text/plain">>, EmptyFn, 150, Messages(<<mOk>>)),
        Req(Json, "content-length" :> <<"2", "0", "1">>, 150, Messages(<<mOk>>)),
        Req(Json, EmptyFn, 201, Messages(<<mOk>>)),
        Req(Json, EmptyFn, 150, Invalid),
        Req(Json, EmptyFn, 150, JNull),
        Req(Json, EmptyFn, 150, Messages(<<mBad>>)),
        Req(Json, EmptyFn, 150, Messages(<<mOk, mOk>>)),
        Req(Json, EmptyFn, 150, Messages(<<mLong>>)),
        Req(Json, EmptyFn, 150,
            JObj(("messages" :> JArr(<<mOk>>)) @@ ("model" :> JStr(<<"evil">>)))),
        Req(Json, EmptyFn, 150, Messages(<<>>)),
        Req(Json, EmptyFn, 150, Messages(<<mOk>>))}

InitLive ==
    /\ now = 0
    /\ rateLimitMap = EmptyFn
    /\ calls = <<>>
    /\ env \in ConcEnvs
    /\ inv = [s \in {1} |-> Idle]

ArriveLive ==
    \E s \in DOMAIN inv, req \in LiveRequests :
        Len(calls) < LiveMaxCalls /\ Start(s, req)

NextLive == ArriveLive \/ ReadSettles \/ ProviderSettles \/ Return \/ TimePasses

SpecLive ==
    /\ InitLive
    /\ [][NextLive]_vars
    /\ WF_vars(ReadSettles)
    /\ WF_vars(ProviderSettles)

\* the invocations that wait for the body or for the provider
Pending == {s \in DOMAIN inv : inv[s].pc \in {"reading", "running"}}

\* the terminal outcomes that hold of a returned invocation i: a response
\* of a check, the response of the catch block, the provider's response
OutcomesOf(i) ==
    {o \in {"check", "catch", "provider"} :
        \/ /\ o = "check"
           /\ i.thrown = None /\ i.outcome = None
           /\ i.resp.status \in {429, 415, 413, 400}
        \/ /\ o = "catch"
           /\ i.thrown # None
           /\ i.resp.status = 500
        \/ /\ o = "provider"
           /\ i.thrown = None /\ i.outcome # None /\ i.outcome.t = "response"
           /\ i.resp = applySecurityHeaders(i.outcome.response, NoStore)}

\* C34: an invocation whose body read and provider call settle ends in
\* exactly one terminal outcome: it has a response exactly when it has
\* returned, the response is one of 429, 415, 413, 400, the 500 of the catch
\* block or the provider's response, whatever was thrown was answered 500,
\* an invocation only ends by returning, and every pending invocation
\* returns.
C34_OneTerminalOutcome ==
    /\ [](\A s \in DOMAIN inv :
              /\ (inv[s].pc = "done") <=> (inv[s].resp # None)
              /\ inv[s].thrown # None => inv[s].pc = "done"
              /\ inv[s].pc = "done" => Cardinality(OutcomesOf(inv[s])) = 1)
    /\ [][\A s \in DOMAIN inv :
              /\ (inv[s].pc # "idle" /\ inv'[s].pc = "idle") => inv[s].pc = "done"
              /\ (inv[s].pc = "done" /\ inv'[s].pc = "done") => inv'[s] = inv[s]]_vars
    /\ (Pending # {}) ~> (Pending = {} /\ Returned # {})

\* invocations have returned with each of the outcomes, one of them after
\* the body read threw and one after the provider call rejected
C34_Witness ==
    \E s \in Returned :
        /\ inv[s].thrown # None
        /\ inv[s].thrown.t = "reject"
        /\ inv[s].aiCalls # <<>>
        /\ inv[s].resp.status = 500
        /\ OutcomesOf(inv[s]) = {"catch"}
        /\ Len(calls) = 2
        /\ calls[1].identifier = calls[2].identifier


(***************************************************************************)
(* The empty message sequence, the model that is not a string, the body    *)
(* that is not an object (SpecReq)                                         *)
(***************************************************************************)
\* C35: a request, valid otherwise and naming no model, whose messages field
\* is the empty array passes every check: the provider is called once, with
\* exactly one message, the system message with the composed prompt, and
\* with no user or assistant message.
C35_EmptyMessages ==
    \A s \in Started :
        LET i == inv[s]
            cfg == Resolved[env]
            clientContext == Get(i.req.body.json, "clientContext")
        IN (/\ ReachesValidation(i)
            /\ BodyWasRead(i)
            /\ MessagesOf(i) = JArr(<<>>)
            /\ Get(i.req.body.json, "model").t = "undefined")
           => /\ s \notin Refused
              /\ i.checks = CheckOrder
              /\ Len(i.aiCalls) = 1
              /\ Len(i.aiCalls[1].messages) = 1
              /\ i.aiCalls[1].messages[1] =
                     [role |-> <<"system">>,
                      content |-> buildContextualSystemPrompt(cfg.SYSTEM_PROMPT,
                                      normalizeClientContext(clientContext))]
              /\ \A n \in DOMAIN i.aiCalls[1].messages :
                     i.aiCalls[1].messages[n].role \notin {<<"user">>, <<"assistant">>}

\* a request with no message and a client context has called the provider
\* with the one system message, whose prompt names the context
C35_Witness ==
    \E s \in Forwarded :
        /\ MessagesOf(inv[s]) = JArr(<<>>)
        /\ Get(inv[s].req.body.json, "clientContext") = SomeContext
        /\ Len(inv[s].aiCalls[1].messages) = 1
        /\ inv[s].aiCalls[1].messages[1].role = <<"system">>
        /\ inv[s].aiCalls[1].messages[1].content # Resolved[env].SYSTEM_PROMPT

\* C36: a request, valid otherwise, whose model field is present and is not
\* a string (a number, a boolean, null, an object, an array) is not refused:
\* the allowlist is not consulted and the provider is called with the
\* configured default model.
C36_NonStringModel ==
    \A s \in Started :
        LET i == inv[s]
            model == Get(i.req.body.json, "model")
        IN (/\ ReachesModelCheck(i)
            /\ model.t \in {"number", "boolean", "null", "object", "array"})
           => /\ s \notin Refused
              /\ Len(i.aiCalls) = 1
              /\ i.aiCalls[1].model =
                     IF "MODEL_ID" \in DOMAIN env /\ env["MODEL_ID"] # <<>>
                     THEN env["MODEL_ID"]
                     ELSE DEFAULT_MODEL_ID
              /\ i.resp # Response400Model

\* a request whose model is an array holding a name that is not allowed has
\* called the provider with the configured default model
C36_Witness ==
    \E s \in Forwarded :
        /\ Get(inv[s].req.body.json, "model") = JArr(<<JStr(<<"evil">>)>>)
        /\ "MODEL_ID" \in DOMAIN env
        /\ inv[s].aiCalls[1].model = env["MODEL_ID"]

\* C37: a body that is valid JSON and is not an object with a messages array
\* (null, a number, a string, a boolean, an array, an object whose messages
\* is missing or is not an array) is answered 400 "Invalid request: messages
\* must be an array of chat messages", never 500, and the provider is not
\* called.
C37_NotAnObject ==
    \A s \in Started :
        LET i == inv[s]
        IN (/\ ReachesValidation(i)
            /\ BodyWasRead(i)
            /\ MessagesOf(i).t # "array")
           => /\ i.pc = "done"
              /\ i.thrown = None
              /\ i.resp = Response400Messages
              /\ i.resp.status = 400
              /\ ErrorOf(i) = InvalidMessages
              /\ i.aiCalls = <<>>

\* the body null has been answered 400 for its messages
C37_Witness ==
    \E s \in Refused :
        /\ inv[s].req.body.json = JNull
        /\ inv[s].checks[Len(inv[s].checks)] = "messages"
        /\ inv[s].resp.status = 400
        /\ ErrorOf(inv[s]) = InvalidMessages


(***************************************************************************)
(* The browser client's stream loop (public/chat.js).  A stream is a       *)
(* sequence of bytes.  "{" stands for the bytes of {"response":" and "}"   *)
(* for those of "}, the symbols between them are the characters of the     *)
(* fragment, "#" stands for the bytes of {} and "é1", "é2" are the two     *)
(* bytes of the character "é".                                             *)
(***************************************************************************)
Replacement == "\\uFFFD"

\* decoder.decode(bytes, { stream: true }) of a decoder that holds the bytes
\* pending: the text decoded and the bytes of an incomplete character kept
RECURSIVE TextDecode(_, _)
TextDecode(pending, bytes) ==
    LET all == pending \o bytes
    IN IF all = <<>> THEN [text |-> <<>>, pending |-> <<>>]
       ELSE IF all = <<"é1">> THEN [text |-> <<>>, pending |-> all]
       ELSE IF Head(all) = "é1" /\ all[2] = "é2"
       THEN LET rest == TextDecode(<<>>, SubSeq(all, 3, Len(all)))
            IN [rest EXCEPT !.text = <<"é">> \o @]
       ELSE LET rest == TextDecode(<<>>, Tail(all))
            IN [rest EXCEPT !.text =
                   <<IF Head(all) \in {"é1", "é2"} THEN Replacement ELSE Head(all)>> \o @]

\* the characters a fragment is written with
FragmentChars == {"a", "b", "é", " ", Replacement}

\* JSON.parse(text): Invalid when it throws
JSONParse(text) ==
    IF text = <<"#">> THEN JObj(EmptyFn)
    ELSE IF /\ Len(text) >= 2
            /\ text[1] = "{"
            /\ text[Len(text)] = "}"
            /\ \A k \in 2..(Len(text) - 1) : text[k] \in FragmentChars
    THEN JObj("response" :> JStr(SubSeq(text, 2, Len(text) - 1)))
    ELSE Invalid

\* chat.js 153-174: the body of the loop over the complete lines
ProcessLine(st, line) ==
    LET trimmedLine == Trim(line)
        jsonData == JSONParse(trimmedLine)
    IN IF trimmedLine = <<>> THEN st
       ELSE [st EXCEPT
                !.parsed = Append(@, trimmedLine),
                !.responseText =
                    IF jsonData.t # "invalid" /\ Truthy(Get(jsonData, "response"))
                    THEN @ \o Get(jsonData, "response").v
                    ELSE @]

RECURSIVE ProcessLines(_, _)
ProcessLines(st, lines) ==
    IF lines = <<>> THEN st
    ELSE ProcessLines(ProcessLine(st, Head(lines)), Tail(lines))

\* ConsumeChunk that forgets the incomplete line at the end of a chunk
ConsumeChunkNoBuffer(st, value) ==
    LET decoded == TextDecode(st.pending, value)
        buffer == st.buffer \o decoded.text
        lines == Split(buffer, "\n")
        after == ProcessLines(st, SubSeq(lines, 1, Len(lines) - 1))
    IN [after EXCEPT !.pending = decoded.pending,
                     !.buffer = <<>>,
                     !.pos = @ + Len(value)]

\* chat.js 137-175: one turn of the loop, reader.read() having resolved with
\* the bytes value
ConsumeChunk(st, value) ==
    LET decoded == TextDecode(st.pending, value)
        buffer == st.buffer \o decoded.text
        lines == Split(buffer, "\n")
        after == ProcessLines(st, SubSeq(lines, 1, Len(lines) - 1))
    IN [after EXCEPT !.pending = decoded.pending,
                     !.buffer = lines[Len(lines)],
                     !.pos = @ + Len(value)]

\* chat.js 177-188: the buffered content that remains when the stream ends
ConsumeRest(st) ==
    LET rest == Trim(st.buffer)
        jsonData == JSONParse(rest)
    IN IF rest = <<>> THEN [st EXCEPT !.pc = "done"]
       ELSE [st EXCEPT
                !.pc = "done",
                !.parsed = Append(@, rest),
                !.responseText =
                    IF jsonData.t # "invalid" /\ Truthy(Get(jsonData, "response"))
                    THEN @ \o Get(jsonData, "response").v
                    ELSE @]

(***************************************************************************)
(* SpecStream: a stream of up to MaxLines lines, cut into chunks at any    *)
(* places, is read to its end.                                             *)
(***************************************************************************)
MaxLines == 3

\* the lines a stream is made of: their bytes, their text once decoded and
\* trimmed, and the fragment they carry
StreamLines ==
    {[bytes |-> <<"{", "a", "}">>, text |-> <<"{", "a", "}">>, fragment |-> <<"a">>],
     [bytes |-> <<"{", "é1", "é2", " ", "b", "}">>,
      text |-> <<"{", "é", " ", "b", "}">>, fragment |-> <<"é", " ", "b">>],
     [bytes |-> <<"\t", "{", "b", "}", " ">>, text |-> <<"{", "b", "}">>,
      fragment |-> <<"b">>],
     [bytes |-> <<"{", "}">>, text |-> <<"{", "}">>, fragment |-> <<>>],
     [bytes |-> <<"#">>, text |-> <<"#">>, fragment |-> <<>>],
     [bytes |-> <<>>, text |-> <<>>, fragment |-> <<>>]}

\* the bytes of the lines ls, a newline after each but the last, and after
\* the last one too when closed
RECURSIVE StreamOf(_, _)
StreamOf(ls, closed) ==
    IF ls = <<>> THEN <<>>
    ELSE Head(ls).bytes
         \o (IF Len(ls) > 1 \/ closed THEN <<"\n">> ELSE <<>>)
         \o StreamOf(Tail(ls), closed)

InitStream ==
    /\ now = 0
    /\ rateLimitMap = EmptyFn
    /\ calls = <<>>
    /\ env = EmptyFn
    /\ \E n \in 0..MaxLines : \E ls \in [1..n -> StreamLines], closed \in BOOLEAN :
           inv = [pc |-> "reading", lines |-> ls, stream |-> StreamOf(ls, closed),
                  pos |-> 0, pending |-> <<>>, buffer |-> <<>>,
                  responseText |-> <<>>, parsed |-> <<>>,
                  midChar |-> FALSE, midLine |-> FALSE]

\* reader.read() resolves with the next bytes of the stream; midChar and
\* midLine record that a chunk has ended inside a character, inside a line
ReadChunk ==
    /\ inv.pc = "reading"
    /\ \E n \in 1..(Len(inv.stream) - inv.pos) :
           LET st == ConsumeChunk(inv, SubSeq(inv.stream, inv.pos + 1, inv.pos + n))
           IN inv' = [st EXCEPT !.midChar = @ \/ st.pending # <<>>,
                                !.midLine = @ \/ st.buffer # <<>>]
    /\ UNCHANGED <<now, rateLimitMap, calls, env>>

\* reader.read() resolves with done
ReadEnd ==
    /\ inv.pc = "reading"
    /\ inv.pos = Len(inv.stream)
    /\ inv' = ConsumeRest(inv)
    /\ UNCHANGED <<now, rateLimitMap, calls, env>>

NextStream == ReadChunk \/ ReadEnd

SpecStream == InitStream /\ [][NextStream]_vars

\* the fragments of the lines ls, one after the other
RECURSIVE Fragments(_)
Fragments(ls) == IF ls = <<>> THEN <<>> ELSE Head(ls).fragment \o Fragments(Tail(ls))

\* the texts of the lines of ls that are not blank, in order
RECURSIVE Texts(_)
Texts(ls) ==
    IF ls = <<>> THEN <<>>
    ELSE (IF Head(ls).text = <<>> THEN <<>> ELSE <<Head(ls).text>>) \o Texts(Tail(ls))

\* the number of lines of the stream that end within its first pos bytes
Complete(st) ==
    Cardinality({k \in 1..st.pos : st.stream[k] = "\n"})

\* C39: the text the client reconstructs does not depend on the places the
\* stream is cut at: whatever the chunks, once the stream has ended the text
\* is the fragments of all the lines in stream order, and every line that is
\* not blank was handed to JSON.parse exactly once, in order, a last line
\* without a newline included; while the stream is read the same holds of the
\* lines that are complete.
C39_ChunkingIndependent ==
    /\ inv.pc = "done" =>
           /\ inv.responseText = Fragments(inv.lines)
           /\ inv.parsed = Texts(inv.lines)
    /\ inv.pc = "reading" =>
           LET seen == SubSeq(inv.lines, 1, Complete(inv))
           IN /\ inv.responseText = Fragments(seen)
              /\ inv.parsed = Texts(seen)

\* a stream of three lines, the last one without a newline, was cut inside
\* a character and inside its last line, and all three fragments are there
C39_Witness ==
    /\ inv.pc = "done"
    /\ Len(inv.lines) = 3
    /\ inv.stream[Len(inv.stream)] # "\n"
    /\ inv.lines[2].fragment = <<"é", " ", "b">>
    /\ inv.lines[3].fragment = <<"a">>
    /\ inv.lines[1].fragment = <<"b">>
    /\ inv.midChar
    /\ inv.midLine
    /\ inv.responseText = <<"b", "é", " ", "b", "a">>
    /\ Len(inv.parsed) = 3


(***************************************************************************)
(* The browser client's sendMessage (public/chat.js), cut at its awaits:   *)
(* fetch, response.json() and reader.read().  A message is a sequence of   *)
(* symbols; the symbol Block stands for BlockLength characters.            *)
(***************************************************************************)
CLIENT_MAX_MESSAGE_LENGTH == 10000
Block == "x{9999}"
BlockLength == CLIENT_MAX_MESSAGE_LENGTH - 1

\* message.length
RECURSIVE Length(_)
Length(s) ==
    IF s = <<>> THEN 0
    ELSE (IF Head(s) = Block THEN BlockLength ELSE 1) + Length(Tail(s))

initialAssistantMessage == <<"Hi!">>

\* a run of sendMessage: where it waits, the response it waits on, the text
\* it has put together, and how the last run ended
NoRun == [pc |-> "idle", response |-> None, responseText |-> <<>>, outcome |-> "none"]

\* chat.js 202-212: the text the catch block shows for an error
ErrorMessage(error) ==
    IF error.name = "AbortError" THEN "Request timed out. Please try again."
    ELSE IF error.message # "" THEN "Error: " \o error.message
    ELSE "Sorry, there was an error processing your request."

\* chat.js 197-224: the catch blocks and the finally block
CatchFinally(st, r, error, outcome) ==
    [st EXCEPT !.chatMessages = Append(@, ErrorMessage(error)),
               !.runs[r] = [NoRun EXCEPT !.outcome = outcome],
               !.typing = FALSE,
               !.isProcessing = FALSE,
               !.inputDisabled = FALSE,
               !.buttonDisabled = FALSE]

\* the runs of sendMessage that wait on an await
InFlight(st) == {r \in DOMAIN st.runs : st.runs[r].pc # "idle"}

\* sendMessage without the test of isProcessing
sendMessageUnguarded(st, r, value) ==
    LET message == Trim(value)
    IN IF message = <<>> THEN st
       ELSE IF Length(message) > CLIENT_MAX_MESSAGE_LENGTH
       THEN [st EXCEPT !.chatMessages = Append(@, "Sorry, your message is too long.")]
       ELSE LET chatHistory == Append(st.chatHistory, [role |-> "user", content |-> message])
            IN [st EXCEPT
                   !.isProcessing = TRUE,
                   !.inputDisabled = TRUE,
                   !.buttonDisabled = TRUE,
                   !.typing = TRUE,
                   !.chatMessages = @ \o <<"user", "">>,
                   !.chatHistory = chatHistory,
                   !.sent = Append(@, [messages |-> chatHistory]),
                   !.runs[r] = [NoRun EXCEPT !.pc = "fetching"]]

\* chat.js 54-117: sendMessage from its call to `await fetch(...)`; value is
\* userInput.value and r the run that begins
sendMessage(st, r, value) ==
    LET message == Trim(value)
    IN IF message = <<>> \/ st.isProcessing THEN st
       ELSE IF Length(message) > CLIENT_MAX_MESSAGE_LENGTH
       THEN [st EXCEPT !.chatMessages = Append(@, "Sorry, your message is too long.")]
       ELSE LET chatHistory == Append(st.chatHistory, [role |-> "user", content |-> message])
            IN [st EXCEPT
                   !.isProcessing = TRUE,
                   !.inputDisabled = TRUE,
                   !.buttonDisabled = TRUE,
                   !.typing = TRUE,
                   !.chatMessages = @ \o <<"user", "">>,
                   !.chatHistory = chatHistory,
                   !.sent = Append(@, [messages |-> chatHistory]),
                   !.runs[r] = [NoRun EXCEPT !.pc = "fetching"]]

(***************************************************************************)
(* SpecClient: Enter and the send button call sendMessage at any time, up  *)
(* to MaxTriggers times; what the runs wait on settles in any order.       *)
(***************************************************************************)
MaxTriggers == 3
MaxRuns == 2
MaxFragments == 2

\* what the user has typed when sendMessage is called
InputValues ==
    {<<>>, <<" ", "\n">>, <<" ", "h", "i", " ">>, <<Block, "a">>, <<Block, "a", "b">>}

\* what fetch does: it rejects (the timeout aborts it, the network fails),
\* or it resolves with a response
FetchOutcomes ==
    {[t |-> "reject", name |-> "AbortError", message |-> "The operation was aborted."],
     [t |-> "reject", name |-> "TypeError", message |-> "Failed to fetch"],
     [t |-> "response", ok |-> FALSE, status |-> 429, hasBody |-> TRUE,
      error |-> "Rate limit exceeded. Please try again later."],
     [t |-> "response", ok |-> FALSE, status |-> 500, hasBody |-> TRUE, error |-> ""],
     [t |-> "response", ok |-> TRUE, status |-> 200, hasBody |-> FALSE, error |-> ""],
     [t |-> "response", ok |-> TRUE, status |-> 200, hasBody |-> TRUE, error |-> ""]}

InitClient ==
    /\ now = 0
    /\ rateLimitMap = EmptyFn
    /\ calls = <<>>
    /\ env = EmptyFn
    /\ inv = [isProcessing |-> FALSE, inputDisabled |-> FALSE, buttonDisabled |-> FALSE,
              typing |-> FALSE,
              chatHistory |-> <<[role |-> "assistant", content |-> initialAssistantMessage]>>,
              chatMessages |-> <<"assistant">>,
              runs |-> [r \in 1..MaxRuns |-> NoRun],
              sent |-> <<>>,
              triggers |-> 0,
              refused |-> FALSE]

\* Enter or a click on the send button: sendMessage is called; refused
\* records that a message was typed in when a call found isProcessing true
Trigger ==
    /\ inv.triggers < MaxTriggers
    /\ \E value \in InputValues :
           \E r \in {x \in DOMAIN inv.runs :
                       /\ inv.runs[x].pc = "idle"
                       /\ \A y \in 1..(x - 1) : inv.runs[y].pc # "idle"} :
               inv' = [sendMessage(inv, r, value) EXCEPT
                          !.triggers = @ + 1,
                          !.refused = @ \/ (inv.isProcessing /\ Trim(value) # <<>>)]
    /\ UNCHANGED <<now, rateLimitMap, calls, env>>

\* chat.js 109-135: fetch settles
FetchSettles ==
    /\ \E r \in DOMAIN inv.runs, outcome \in FetchOutcomes :
           /\ inv.runs[r].pc = "fetching"
           /\ inv' =
                  IF outcome.t = "reject"
                  THEN CatchFinally(inv, r, outcome,
                           IF outcome.name = "AbortError" THEN "timeout" ELSE "network")
                  ELSE IF ~outcome.ok
                  THEN [inv EXCEPT !.runs[r].pc = "errorBody",
                                   !.runs[r].response = outcome]
                  ELSE IF ~outcome.hasBody
                  THEN CatchFinally(inv, r,
                           [name |-> "Error", message |-> "Streaming response unavailable"],
                           "no-body")
                  ELSE [inv EXCEPT !.runs[r].pc = "streaming",
                                   !.runs[r].response = outcome]
    /\ UNCHANGED <<now, rateLimitMap, calls, env>>

\* chat.js 122-125: response.json() settles; parsed says that the body was
\* JSON (otherwise the error data are {})
JsonSettles ==
    /\ \E r \in DOMAIN inv.runs, parsed \in BOOLEAN :
           /\ inv.runs[r].pc = "errorBody"
           /\ LET response == inv.runs[r].response
                  error == IF parsed THEN response.error ELSE ""
              IN inv' = CatchFinally(inv, r,
                            [name |-> "Error",
                             message |-> IF error # "" THEN error
                                         ELSE "Server error: " \o ToString(response.status)],
                            "server-error")
    /\ UNCHANGED <<now, rateLimitMap, calls, env>>

\* chat.js 137-175: reader.read() resolves with a chunk, whose complete
\* lines carry the text fragment
StreamChunk ==
    /\ \E r \in DOMAIN inv.runs, fragment \in {<<>>, <<"a">>} :
           /\ inv.runs[r].pc = "streaming"
           /\ Len(inv.runs[r].responseText) < MaxFragments
           /\ inv' = [inv EXCEPT !.runs[r].responseText = @ \o fragment]
    /\ UNCHANGED <<now, rateLimitMap, calls, env>>

\* chat.js 138-199: reader.read() resolves with done
StreamEnds ==
    /\ \E r \in DOMAIN inv.runs :
           /\ inv.runs[r].pc = "streaming"
           /\ inv' =
                  IF inv.runs[r].responseText # <<>>
                  THEN [inv EXCEPT
                           !.chatHistory =
                               Append(@, [role |-> "assistant",
                                          content |-> inv.runs[r].responseText]),
                           !.runs[r] = [NoRun EXCEPT !.outcome = "success"],
                           !.typing = FALSE,
                           !.isProcessing = FALSE,
                           !.inputDisabled = FALSE,
                           !.buttonDisabled = FALSE]
                  ELSE CatchFinally(inv, r,
                           [name |-> "Error", message |-> "No response received from server"],
                           "empty")
    /\ UNCHANGED <<now, rateLimitMap, calls, env>>

\* chat.js 138: reader.read() rejects
StreamFails ==
    /\ \E r \in DOMAIN inv.runs :
           /\ inv.runs[r].pc = "streaming"
           /\ inv' = CatchFinally(inv, r,
                         [name |-> "TypeError", message |-> "network error"],
                         "stream-error")
    /\ UNCHANGED <<now, rateLimitMap, calls, env>>

NextClient ==
    Trigger \/ FetchSettles \/ JsonSettles \/ StreamChunk \/ StreamEnds \/ StreamFails

SpecClient == InitClient /\ [][NextClient]_vars

\* C38: at most one chat request is in flight at any time; a sendMessage
\* called while isProcessing is true sends nothing, starts no run and leaves
\* chatHistory unchanged; and whenever a run that set isProcessing has ended
\* (in success, a server error, a timeout, a network error, a missing body
\* or an empty response) isProcessing is false again and the input and the
\* button are enabled.
C38_OneRequestInFlight ==
    /\ [](/\ Cardinality(InFlight(inv)) <= 1
          /\ inv.isProcessing <=> InFlight(inv) # {}
          /\ inv.inputDisabled = inv.isProcessing
          /\ inv.buttonDisabled = inv.isProcessing
          /\ Len(inv.sent) <= inv.triggers)
    /\ [][/\ (inv'.triggers # inv.triggers /\ inv.isProcessing) =>
                 /\ inv'.sent = inv.sent
                 /\ inv'.chatHistory = inv.chatHistory
                 /\ inv'.runs = inv.runs
                 /\ inv'.isProcessing
          /\ \A r \in DOMAIN inv.runs :
                 (inv.runs[r].pc # "idle" /\ inv'.runs[r].pc = "idle") =>
                     /\ inv'.runs[r].outcome \in
                            {"success", "server-error", "timeout", "network",
                             "no-body", "empty", "stream-error"}
                     /\ ~inv'.isProcessing
                     /\ ~inv'.inputDisabled
                     /\ ~inv'.buttonDisabled
          /\ Len(inv'.sent) > Len(inv.sent) =>
                 /\ ~inv.isProcessing
                 /\ InFlight(inv) = {}
                 /\ Len(inv'.sent) = Len(inv.sent) + 1
      ]_vars

\* a run has ended in a timeout after a sendMessage called during it sent
\* nothing, and a later sendMessage has sent the second request
C38_Witness ==
    /\ inv.triggers = 3
    /\ inv.refused
    /\ Len(inv.sent) = 2
    /\ inv.isProcessing
    /\ inv.runs[1].pc = "fetching"
    /\ inv.chatMessages[Len(inv.chatMessages) - 2] = "Request timed out. Please try again."
    /\ Len(inv.chatHistory) = 3

====
